---- MODULE Spec2Model ----
(***************************************************************************)
(* The workflow builder store of keep-ui                                   *)
(* (keep-ui/entities/workflows/model/workflow-store.ts): the node/edge     *)
(* graph of a workflow, the commands that edit it (addNodeBetween,         *)
(* deleteNodes, onConnect) and the definition and validation state that    *)
(* every edit regenerates.                                                 *)
(*                                                                         *)
(* The helpers the store imports from utils/reactFlow, the builder's       *)
(* lib/utils and lib/validate-definition are not part of the sources at    *)
(* hand; they are modelled from the specification (sections 3 and 4) and   *)
(* are marked as such where they are defined.                              *)
(***************************************************************************)
EXTENDS Integers, Sequences, FiniteSets, TLC

VARIABLES
    nodes,            \* FlowNode[]: the node list, in list order
    edges,            \* Edge[]: the edge list, in list order
    v2Properties,     \* the properties map (trigger kind -> config, name)
    definition,       \* the wrapped definition {value: {sequence, properties}, isValid}
    validationErrors, \* Record<string, [message, severity]>
    canDeploy,
    selectedNode,     \* id or NullId
    selectedEdge,     \* id or NullId
    isLayouted,
    changes,          \* the unsaved-changes counter
    editorOpen,
    uuids,            \* how many ids uuidv4() has handed out
    connects,         \* how many connections onConnect has accepted
    lastCmd           \* the last command issued and what it returned or threw

vars == <<nodes, edges, v2Properties, definition, validationErrors, canDeploy,
          selectedNode, selectedEdge, isLayouted, changes, editorOpen,
          uuids, connects, lastCmd>>

\* everything the store holds (the model's bookkeeping left out)
store == <<nodes, edges, v2Properties, definition, validationErrors, canDeploy,
           selectedNode, selectedEdge, isLayouted, changes, editorOpen>>

----------------------------------------------------------------------------
(* Bounds of the model *)

\* uuidv4() is called at most this many times (non-trigger steps inserted)
MaxUuids == 2
\* the same, where connections (SpecConnect) or throwing commands (SpecThrows)
\* are explored as well
MaxUuidsConnect == 1
MaxUuidsThrows == 1
MaxUuidsSync == 1
\* onConnect accepts at most this many connections
MaxConnects == 2
\* the same, where the connections come on top of trigger edits (SpecConnect)
\* or of updates (SpecSync)
MaxConnectsConnect == 1
MaxConnectsSync == 1
\* uuidv4() calls (steps inserted or dropped) where the caps of onConnect are
\* explored (SpecCaps)
MaxUuidsCaps == 2
\* uuidv4() calls where dropped steps are deleted (SpecDrop)
MaxUuidsDrop == 2
MaxUuidsSafe == 1
MaxUuidsSelect == 1
MaxUuidsChanges == 1
\* updateFromYamlString is called while at most this many edits are unsaved
MaxChangesYaml == 2
\* the unsaved-changes counter is explored up to this value
MaxChanges == 1

\* the steps that may still be inserted once the saved workflow is opened
LoadedBudget == 1

----------------------------------------------------------------------------
(* Ids *)

NullId == ""

\* the protected ids without 'start'
PROTECTED_NODE_IDS_WithoutStart == {"end", "trigger_start", "trigger_end"}

\* PROTECTED_NODE_IDS with the sentinel that closes the trigger lane left out
PROTECTED_NODE_IDS_WithoutTriggerEnd == {"start", "end", "trigger_start"}

PROTECTED_NODE_IDS == {"start", "end", "trigger_start", "trigger_end"}

\* the reserved trigger-kind ids (the switch of addNodeBetween, deleteNodes)
TriggerKinds == {"manual", "interval", "alert", "incident"}

\* uuidv4() handing out one and the same id on every call
Uuid_Reused(k) == "n" \o ToString(1)

\* the k-th id uuidv4() returns: fresh, never one of the reserved ids
Uuid(k) == "n" \o ToString(k)

\* `${type}__end__${id}`: the id of the end boundary of the region a node opens
EndIdentifier(type, id) == type \o "__end__" \o id

----------------------------------------------------------------------------
(* Steps (the definition tree), nodes and edges *)

\* the outcome of the per-step checks on a step's configuration: no finding,
\* or one finding of severity warning or error
Findings == {"none", "warning", "error"}

\* a step of the definition; a Switch carries two branches, a Container a body
Step(id, name, type, componentType, finding, bFalse, bTrue, body) ==
    [id |-> id, name |-> name, type |-> type, componentType |-> componentType,
     finding |-> finding, branchesFalse |-> bFalse, branchesTrue |-> bTrue,
     sequence |-> body]

Leaf(id, name, type, componentType, finding) ==
    Step(id, name, type, componentType, finding, <<>>, <<>>, <<>>)

\* the placeholder steps addNodeBetween wraps the new step in
TempNode(id, edgeLabel, edgeNotNeeded) ==
    [id |-> id, name |-> "temp_node", type |-> "temp_node",
     componentType |-> "temp_node", edgeLabel |-> edgeLabel,
     edgeNotNeeded |-> edgeNotNeeded]

StartStep == Leaf("start", "start", "start", "start", "none")
EndStep == Leaf("end", "end", "end", "end", "none")

\* a FlowNode: the step's data and the presentation flags
FlowNode(id, name, type, componentType, finding, isNested) ==
    [id |-> id, name |-> name, type |-> type, componentType |-> componentType,
     finding |-> finding, isNested |-> isNested, isDraggable |-> FALSE,
     isLayouted |-> FALSE, prevStepId |-> NullId]

\* createDefaultNodeV2(step, nodeId): the node of a step, not nested, not draggable
createDefaultNodeV2(data, nodeId) ==
    FlowNode(nodeId, data.name, data.type, data.componentType, data.finding, FALSE)

\* the end-boundary node that closes the region of step s
EndBoundaryNode(s, isNested) ==
    FlowNode(EndIdentifier(s.type, s.id), s.type \o "__end", s.type \o "__end",
             s.type \o "__end", "none", isNested)

\* the step types that open a region: the Switch and the Container variants
SwitchType == "condition-assert"
ContainerType == "foreach"
RegionTypes == {SwitchType, ContainerType}

\* whether a node is the end boundary of a region (type `${type}__end`)
IsEndBoundary(n) == \E t \in RegionTypes : n.componentType = t \o "__end"

\* createCustomEdgeMeta(source, target, label): the edges source -> target
createCustomEdgeMeta(source, target, label) ==
    IF source = NullId \/ target = NullId THEN <<>>
    ELSE <<[source |-> source, target |-> target, label |-> label]>>

Ids(ns) == {ns[i].id : i \in 1..Len(ns)}

\* Array.prototype.findIndex, 1-based; 0 when nothing matches
FindIndex(seq, P(_)) ==
    LET hits == {i \in 1..Len(seq) : P(seq[i])}
    IN IF hits = {} THEN 0 ELSE CHOOSE i \in hits : \A j \in hits : i <= j

\* Array.prototype.filter
Filter(seq, P(_)) == SelectSeq(seq, P)

RECURSIVE Concat(_)
Concat(seqs) == IF seqs = <<>> THEN <<>> ELSE Head(seqs) \o Concat(Tail(seqs))

OutEdges(es, id) == Filter(es, LAMBDA e : e.source = id)
InEdges(es, id) == Filter(es, LAMBDA e : e.target = id)

----------------------------------------------------------------------------
(* Definition -> Graph: processWorkflowV2 *)

\* the id the edge into a list of steps leads to: its first step, or what follows
Entry(seq, succ) == IF seq = <<>> THEN succ ELSE seq[1].id

IsTriggerStep(s) == s.componentType = "trigger" /\ s.id \notin PROTECTED_NODE_IDS

\* the triggers that follow trigger_start in the sequence
RECURSIVE LeadingTriggers(_)
LeadingTriggers(seq) ==
    IF seq # <<>> /\ IsTriggerStep(Head(seq))
    THEN <<Head(seq)>> \o LeadingTriggers(Tail(seq))
    ELSE <<>>

\* The nodes and edges of the steps `seq`, whose last step leads on to `succ`.
\*  - trigger_start fans out to every trigger that follows it, each of which
\*    leads to trigger_end (trigger_start -> trigger_end when there is none);
\*  - a Switch leads by an edge labelled false and an edge labelled true, in
\*    this order, into its two branches, which reconverge in its end boundary;
\*  - a Container leads into its body, which its end boundary closes;
\*  - a temp_node yields no node, only the edge that leaves it.
RECURSIVE Chain(_, _, _)
Chain(seq, succ, isNested) ==
    IF seq = <<>> THEN [nodes |-> <<>>, edges |-> <<>>]
    ELSE
    LET s == Head(seq)
        next == Entry(Tail(seq), succ)
    IN
    IF s.componentType = "temp_node" THEN
        LET rest == Chain(Tail(seq), succ, isNested)
        IN [nodes |-> rest.nodes,
            edges |-> (IF s.edgeNotNeeded THEN <<>>
                       ELSE createCustomEdgeMeta(s.id, next, s.edgeLabel))
                      \o rest.edges]
    ELSE IF s.id = "trigger_start" THEN
        LET trigs == LeadingTriggers(Tail(seq))
            after == SubSeq(seq, Len(trigs) + 2, Len(seq))
            lane == Entry(after, succ)
            rest == Chain(after, succ, isNested)
        IN [nodes |-> <<createDefaultNodeV2(s, s.id)>>
                      \o [i \in 1..Len(trigs) |->
                            createDefaultNodeV2(trigs[i], trigs[i].id)]
                      \o rest.nodes,
            edges |-> (IF trigs = <<>> THEN createCustomEdgeMeta(s.id, lane, "")
                       ELSE Concat([i \in 1..Len(trigs) |->
                              createCustomEdgeMeta(s.id, trigs[i].id, "")
                              \o createCustomEdgeMeta(trigs[i].id, lane, "")]))
                      \o rest.edges]
    ELSE IF s.componentType = "switch" THEN
        LET endId == EndIdentifier(s.type, s.id)
            f == Chain(s.branchesFalse, endId, TRUE)
            t == Chain(s.branchesTrue, endId, TRUE)
            rest == Chain(Tail(seq), succ, isNested)
            self == [createDefaultNodeV2(s, s.id) EXCEPT !.isNested = isNested]
        IN [nodes |-> <<self>> \o f.nodes \o t.nodes
                      \o <<EndBoundaryNode(s, isNested)>> \o rest.nodes,
            edges |-> createCustomEdgeMeta(s.id, Entry(s.branchesFalse, endId), "false")
                      \o f.edges
                      \o createCustomEdgeMeta(s.id, Entry(s.branchesTrue, endId), "true")
                      \o t.edges
                      \o createCustomEdgeMeta(endId, next, "")
                      \o rest.edges]
    ELSE IF s.componentType = "container" THEN
        LET endId == EndIdentifier(s.type, s.id)
            b == Chain(s.sequence, endId, TRUE)
            rest == Chain(Tail(seq), succ, isNested)
            self == [createDefaultNodeV2(s, s.id) EXCEPT !.isNested = isNested]
        IN [nodes |-> <<self>> \o b.nodes
                      \o <<EndBoundaryNode(s, isNested)>> \o rest.nodes,
            edges |-> createCustomEdgeMeta(s.id, Entry(s.sequence, endId), "")
                      \o b.edges
                      \o createCustomEdgeMeta(endId, next, "")
                      \o rest.edges]
    ELSE
        LET rest == Chain(Tail(seq), succ, isNested)
            self == [createDefaultNodeV2(s, s.id) EXCEPT !.isNested = isNested]
        IN [nodes |-> <<self>> \o rest.nodes,
            edges |-> createCustomEdgeMeta(s.id, next, "") \o rest.edges]

\* processWorkflowV2(sequence, position, isNested): the flat node and edge lists
processWorkflowV2(sequence) == Chain(sequence, NullId, FALSE)

----------------------------------------------------------------------------
(* Graph -> Definition: reConstructWorklowToDefinition *)

EmptyMap == [k \in {} |-> ""]

\* {...m, [k]: v}
Put(m, k, v) == [x \in (DOMAIN m) \cup {k} |-> IF x = k THEN v ELSE m[x]]

\* delete m[k]
Remove(m, k) == [x \in (DOMAIN m) \ {k} |-> m[x]]

\* the node an id names, and whether it names one
HasNode(ns, id) == \E i \in 1..Len(ns) : ns[i].id = id
NodeOf(ns, id) == ns[FindIndex(ns, LAMBDA n : n.id = id)]

\* the target of the first edge leaving id (NullId when there is none), and
\* of the first edge leaving it with a given label
NextOf(es, id) ==
    LET out == OutEdges(es, id) IN IF out = <<>> THEN NullId ELSE out[1].target
BranchOf(es, id, label) ==
    LET out == Filter(es, LAMBDA e : e.source = id /\ e.label = label)
    IN IF out = <<>> THEN NullId ELSE out[1].target

\* the step of a node with the two branches filled in the wrong way round
StepOf_BranchesSwapped(n, bFalse, bTrue, body) ==
    Step(n.id, n.name, n.type, n.componentType, n.finding, bTrue, bFalse, body)

\* the step a node wraps (branches and body filled in by the traversal)
StepOf(n, bFalse, bTrue, body) ==
    Step(n.id, n.name, n.type, n.componentType, n.finding, bFalse, bTrue, body)

\* The steps on the path from node `cur` up to (not including) node `stop`:
\* the sentinels and triggers of the lane are passed over, a Switch collects
\* its false and its true branch up to its end boundary, a Container its body,
\* and the walk goes on behind the end boundary. A path that ends early (a
\* graph mid-edit) ends the sequence; `fuel` bounds the walk on a cyclic graph.
RECURSIVE Walk(_, _, _, _, _)
Walk(ns, es, cur, stop, fuel) ==
    IF fuel = 0 \/ cur = NullId \/ cur = stop \/ cur = "end" \/ ~HasNode(ns, cur)
    THEN <<>>
    ELSE
    LET n == NodeOf(ns, cur)
        endId == EndIdentifier(n.type, n.id)
        behind == IF HasNode(ns, endId) THEN NextOf(es, endId) ELSE NullId
    IN
    IF n.componentType \in {"start", "trigger"}
    THEN Walk(ns, es, NextOf(es, cur), stop, fuel - 1)
    ELSE IF n.componentType = "switch"
    THEN <<StepOf(n, Walk(ns, es, BranchOf(es, cur, "false"), endId, fuel - 1),
                     Walk(ns, es, BranchOf(es, cur, "true"), endId, fuel - 1),
                     <<>>)>>
         \o Walk(ns, es, behind, stop, fuel - 1)
    ELSE IF n.componentType = "container"
    THEN <<StepOf(n, <<>>, <<>>, Walk(ns, es, NextOf(es, cur), endId, fuel - 1))>>
         \o Walk(ns, es, behind, stop, fuel - 1)
    ELSE IF IsEndBoundary(n)
    THEN \* an end boundary whose opening node is gone: not a step
         Walk(ns, es, NextOf(es, cur), stop, fuel - 1)
    ELSE <<StepOf(n, <<>>, <<>>, <<>>)>>
         \o Walk(ns, es, NextOf(es, cur), stop, fuel - 1)

\* reConstructWorklowToDefinition({nodes, edges, properties})
reConstructWorklowToDefinition(ns, es, properties) ==
    [sequence |-> Walk(ns, es, "start", NullId, Len(ns) + 1),
     properties |-> properties]

----------------------------------------------------------------------------
(* Validation: validateDefinition *)

\* validateGlobalPure(definition): the findings on the definition as a whole,
\* as [key, message] pairs: a workflow needs at least one trigger
validateGlobalPure(def) ==
    IF (DOMAIN def.properties) \cap TriggerKinds = {}
    THEN <<<<"trigger_start", "Workflow should have at least one trigger.">>>>
    ELSE <<>>

\* validateStepPure(step, ...): the findings of the per-step checks on a step,
\* each a [message, severity] pair
validateStepPure(step) ==
    IF step.finding = "none" THEN <<>>
    ELSE <<<<"finding on " \o step.id, step.finding>>>>

\* step.name || step.id
KeyOf(step) == IF step.name # "" THEN step.name ELSE step.id

\* the assignments validationErrors[key] = errors[0] that one step of the top
\* level makes, in the order the code makes them: the steps of its branches
\* (true, then false) or of its body first, the step itself last
StepAssignments(step) ==
    LET inner == IF step.componentType = "switch"
                 THEN step.branchesTrue \o step.branchesFalse
                 ELSE IF step.componentType = "container" THEN step.sequence
                 ELSE <<>>
        own(s) == IF validateStepPure(s) = <<>> THEN <<>>
                  ELSE <<<<KeyOf(s), validateStepPure(s)[1]>>>>
    IN Concat([i \in 1..Len(inner) |-> own(inner[i])]) \o own(step)

\* the record the assignments build, a later one overwriting an earlier one
RECURSIVE Assign(_, _)
Assign(m, as) ==
    IF as = <<>> THEN m ELSE Assign(Put(m, as[1][1], as[1][2]), Tail(as))

validateDefinition(def) ==
    LET global == validateGlobalPure(def)
        fromGlobal == [i \in 1..Len(global) |->
                         <<global[i][1], <<global[i][2], "error">>>>]
        fromSteps == Concat([i \in 1..Len(def.sequence) |->
                               StepAssignments(def.sequence[i])])
        errors == Assign(EmptyMap, fromGlobal \o fromSteps)
    IN [isValid |-> global = <<>> /\ fromSteps = <<>>,
        validationErrors |-> errors,
        canDeploy |-> \A k \in DOMAIN errors : errors[k][2] # "error"]

----------------------------------------------------------------------------
(* Step payloads and their schemas *)

Undefined == "undefined"

\* a raw step payload, as the toolbox hands it to addNodeBetween; `config` is
\* properties?.[id], the default config a trigger payload carries
Payload(id, name, type, componentType, finding, config) ==
    [id |-> id, name |-> name, type |-> type, componentType |-> componentType,
     finding |-> finding, config |-> config]

\* rawStep === undefined
NoStep == Payload(NullId, "", "", Undefined, "none", Undefined)

TriggerPayload(kind, config) == Payload(kind, kind, kind, "trigger", "none", config)

\* V2StepTriggerSchema.parse succeeds: a trigger of one of the closed set of kinds
V2StepTriggerSchemaOk(raw) ==
    raw.type \in TriggerKinds /\ raw.id = raw.type /\ raw.name # ""

\* V2StepTemplateSchema.parse succeeds: a named, typed step of a known variant
V2StepTemplateSchemaOk(raw) ==
    raw.name # "" /\ raw.type # "" /\ raw.componentType \in {"task", "switch", "container"}

----------------------------------------------------------------------------
(* Edge-type legality: features/workflows/builder/lib/utils *)

\* the ids of the steps of the saved workflow the editor may be opened on
LoadedStepIds == {"s1", "f1"}

\* whether an id is the end boundary of a region of the given type
IsEndIdOf(type, id) ==
    \/ \E k \in 1..MaxUuids : id = EndIdentifier(type, Uuid(k))
    \/ \E sid \in LoadedStepIds : id = EndIdentifier(type, sid)

\* a Trigger goes on the edge trigger_start -> trigger_end only
canAddTriggerBeforeEdge(source, target) ==
    source = "trigger_start" /\ target = "trigger_end"

\* no step goes on the trigger lane or in front of it
canAddStepBeforeEdge(source, target) ==
    source # "trigger_start" /\ target # "trigger_end" /\ target # "trigger_start"

\* a Switch does not go on an edge that leads into the reconverge point of a Switch
canAddConditionBeforeEdge(source, target) == ~IsEndIdOf(SwitchType, target)

\* a Container does not go on an edge that leads into the end boundary of a Container
canAddForeachBeforeEdge(source, target) == ~IsEndIdOf(ContainerType, target)

----------------------------------------------------------------------------
(* addNodeBetween *)

\* what a command that throws leaves behind: the error, and nothing written
Thrown(error, ns, es, props) ==
    [error |-> error, nodes |-> ns, edges |-> es, v2Properties |-> props,
     newNodeId |-> NullId, edge |-> 0]

\* !nodeOrEdgeId: a node id is a string, an edge id names a position of the
\* edge list (edge ids are unique); 0 stands for an undefined edge id
IsUndefinedAnchor(type, nodeOrEdgeId) ==
    IF type = "node" THEN nodeOrEdgeId = NullId ELSE nodeOrEdgeId = 0

\* edges.find(...): the position of the anchor edge, 0 when there is none
FindAnchorEdge(es, type, nodeOrEdgeId) ==
    IF type = "node"
    THEN FindIndex(es, LAMBDA e : e.target = nodeOrEdgeId)
    ELSE IF nodeOrEdgeId \in 1..Len(es) THEN nodeOrEdgeId ELSE 0

\* the duplicate-trigger test with the test left out
TriggerAlreadyInWorkflow_Unchecked(ns, rawStep) == FALSE

\* nodes.some((node) => node.id === step.id) for a trigger step
TriggerAlreadyInWorkflow(ns, rawStep) ==
    rawStep.componentType = "trigger" /\ \E i \in 1..Len(ns) : ns[i].id = rawStep.id

\* the pre-conditions of addNodeBetween in the order the code checks them:
\* the error thrown, or "" when the step may be inserted
AddNodeError(ns, es, type, nodeOrEdgeId, rawStep) ==
    LET isTriggerComponent == rawStep.componentType = "trigger"
        at == FindAnchorEdge(es, type, nodeOrEdgeId)
        sourceId == es[at].source
        targetId == IF sourceId = "trigger_start" THEN "trigger_end" ELSE es[at].target
    IN
    IF rawStep = NoStep THEN "Step is not defined"
    ELSE IF IsUndefinedAnchor(type, nodeOrEdgeId) THEN "Node or edge id is not defined"
    ELSE IF isTriggerComponent /\ ~V2StepTriggerSchemaOk(rawStep) THEN "ZodError"
    ELSE IF ~isTriggerComponent /\ ~V2StepTemplateSchemaOk(rawStep) THEN "ZodError"
    ELSE IF at = 0 THEN "Edge not found"
    ELSE IF isTriggerComponent /\ ~canAddTriggerBeforeEdge(sourceId, targetId)
         THEN "cannot add trigger"
    ELSE IF rawStep.componentType = "switch" /\ ~canAddConditionBeforeEdge(sourceId, targetId)
         THEN "cannot add condition"
    ELSE IF rawStep.componentType = "container" /\ rawStep.type = "foreach"
            /\ ~canAddForeachBeforeEdge(sourceId, targetId)
         THEN "cannot add foreach"
    ELSE IF sourceId # "trigger_start" /\ isTriggerComponent
         THEN "Trigger is only allowed at the start of the workflow"
    ELSE IF sourceId = "trigger_start" /\ ~isTriggerComponent
         THEN "Only trigger can be added at the start of the workflow"
    ELSE IF ~isTriggerComponent /\ ~canAddStepBeforeEdge(sourceId, targetId)
         THEN "cannot add step"
    ELSE IF TriggerAlreadyInWorkflow(ns, rawStep)
         THEN "Trigger is already in the workflow"
    ELSE IF FindIndex(ns, LAMBDA n : n.id = targetId) = 0
         THEN "Target node not found"
    ELSE ""

\* the edges after the insertion when every edge goes through addEdge, which
\* refuses an edge whose source and target are those of an edge it holds
FinalEdgesAfterInsert_ThroughAddEdge(newEdges, es, sourceId, targetId) ==
    LET all == newEdges \o Filter(es, LAMBDA e : ~(e.source = sourceId /\ e.target = targetId))
        firstOfPair(i) == \A j \in 1..(i - 1) :
                              ~(all[j].source = all[i].source /\ all[j].target = all[i].target)
        pick[i \in 0..Len(all)] ==
            IF i = 0 THEN <<>>
            ELSE IF firstOfPair(i) THEN pick[i - 1] \o <<all[i]>> ELSE pick[i - 1]
    IN pick[Len(all)]

\* the edges of the graph after the insertion: the new sub-path, then every
\* edge that does not run from the anchor's source to the anchor's target
FinalEdgesAfterInsert(newEdges, es, sourceId, targetId) ==
    newEdges \o Filter(es, LAMBDA e : ~(e.source = sourceId /\ e.target = targetId))

\* the seeding without the cases of 'alert' and 'incident'
SeededProperties_IntervalManualOnly(props, newNodeId, config) ==
    IF newNodeId \in {"interval", "manual"}
    THEN Put(props, newNodeId, IF config = Undefined THEN "" ELSE config)
    ELSE props

\* the config addNodeBetween seeds v2Properties with for a trigger-kind id
SeededProperties(props, newNodeId, config) ==
    IF newNodeId \in {"interval", "manual"}
    THEN Put(props, newNodeId, IF config = Undefined THEN "" ELSE config)
    ELSE IF newNodeId \in {"alert", "incident"}
    THEN Put(props, newNodeId, IF config = Undefined THEN "{}" ELSE config)
    ELSE props

\* the insertion without the redirection of the target to trigger_end for an
\* anchor edge that leaves trigger_start
Inserted_NoRedirect(ns, es, props, type, nodeOrEdgeId, rawStep, newUuid) ==
    LET isTriggerComponent == rawStep.componentType = "trigger"
        at == FindAnchorEdge(es, type, nodeOrEdgeId)
        edge == es[at]
        sourceId == edge.source
        targetId == edge.target
        targetIndex == FindIndex(ns, LAMBDA n : n.id = targetId)
        sourceIndex == FindIndex(ns, LAMBDA n : n.id = sourceId)
        newNodeId == IF isTriggerComponent THEN rawStep.id ELSE newUuid
        newStep == Leaf(newNodeId, rawStep.name, rawStep.type,
                        rawStep.componentType, rawStep.finding)
        sub == processWorkflowV2(<<TempNode(sourceId, edge.label, FALSE),
                                   newStep,
                                   TempNode(targetId, "", TRUE)>>)
        isNested == ns[targetIndex].isNested
                    \/ (sourceIndex # 0 /\ ns[sourceIndex].isNested)
        newNodes == [i \in 1..Len(sub.nodes) |->
                       [sub.nodes[i] EXCEPT !.isNested = isNested]]
    IN [error |-> "",
        nodes |-> SubSeq(ns, 1, targetIndex - 1) \o newNodes
                  \o SubSeq(ns, targetIndex, Len(ns)),
        edges |-> FinalEdgesAfterInsert(sub.edges, es, sourceId, targetId),
        v2Properties |-> SeededProperties(props, newNodeId, rawStep.config),
        newNodeId |-> newNodeId,
        edge |-> at]

\* addNodeBetween past its checks: the sub-path is compiled and spliced in
\* front of the target, the anchor edge is dropped, the properties are seeded
Inserted(ns, es, props, type, nodeOrEdgeId, rawStep, newUuid) ==
    LET isTriggerComponent == rawStep.componentType = "trigger"
        at == FindAnchorEdge(es, type, nodeOrEdgeId)
        edge == es[at]
        sourceId == edge.source
        targetId == IF sourceId = "trigger_start" THEN "trigger_end" ELSE edge.target
        targetIndex == FindIndex(ns, LAMBDA n : n.id = targetId)
        sourceIndex == FindIndex(ns, LAMBDA n : n.id = sourceId)
        newNodeId == IF isTriggerComponent THEN rawStep.id ELSE newUuid
        newStep == Leaf(newNodeId, rawStep.name, rawStep.type,
                        rawStep.componentType, rawStep.finding)
        sub == processWorkflowV2(<<TempNode(sourceId, edge.label, FALSE),
                                   newStep,
                                   TempNode(targetId, "", TRUE)>>)
        isNested == ns[targetIndex].isNested
                    \/ (sourceIndex # 0 /\ ns[sourceIndex].isNested)
        newNodes == [i \in 1..Len(sub.nodes) |->
                       [sub.nodes[i] EXCEPT !.isNested = isNested]]
    IN [error |-> "",
        nodes |-> SubSeq(ns, 1, targetIndex - 1) \o newNodes
                  \o SubSeq(ns, targetIndex, Len(ns)),
        edges |-> FinalEdgesAfterInsert(sub.edges, es, sourceId, targetId),
        v2Properties |-> SeededProperties(props, newNodeId, rawStep.config),
        newNodeId |-> newNodeId,
        edge |-> at]

\* addNodeBetween with the properties of a trigger seeded ahead of the
\* duplicate-trigger check
AddNodeBetweenCore_SeedsBeforeCheck(ns, es, props, type, nodeOrEdgeId, rawStep, newUuid) ==
    LET error == AddNodeError(ns, es, type, nodeOrEdgeId, rawStep) IN
    IF error = "Trigger is already in the workflow"
    THEN Thrown(error, ns, es, SeededProperties(props, rawStep.id, rawStep.config))
    ELSE IF error # "" THEN Thrown(error, ns, es, props)
    ELSE Inserted(ns, es, props, type, nodeOrEdgeId, rawStep, newUuid)

\* function addNodeBetween, up to its calls of onLayout and updateDefinition:
\* the nodes, edges and properties it sets and the id it returns, or the error
\* it throws; newUuid is the id uuidv4() would return
AddNodeBetweenCore(ns, es, props, type, nodeOrEdgeId, rawStep, newUuid) ==
    LET error == AddNodeError(ns, es, type, nodeOrEdgeId, rawStep) IN
    IF error # "" THEN Thrown(error, ns, es, props)
    ELSE Inserted(ns, es, props, type, nodeOrEdgeId, rawStep, newUuid)

----------------------------------------------------------------------------
(* deleteNodes *)

\* the reconnection led to the last node of the deleted range instead of the
\* node after it
Reconnections_ToRangeEnd(sources, targets) ==
    Concat([t \in 1..Len(targets) |->
        Concat([s \in 1..Len(sources) |->
            createCustomEdgeMeta(
                sources[s].source, targets[t].source, sources[s].label)])])

\* the edges that reconnect the graph around a deleted range: for every edge
\* leaving the range's last node, in list order, one edge from the source of
\* every edge entering the range's first node, carrying that edge's label
Reconnections(sources, targets) ==
    Concat([t \in 1..Len(targets) |->
        Concat([s \in 1..Len(sources) |->
            createCustomEdgeMeta(
                sources[s].source,
                IF targets[t].source = "trigger_start" THEN "trigger_end"
                ELSE targets[t].target,
                sources[s].label)])])

\* store.deleteNodes(ids), up to its calls of onLayout and updateDefinition:
\* the nodes, edges and properties it sets and the ids it returns, or the
\* error it throws
DeleteNodesCore(ns, es, props, ids) ==
    LET nodeStartIndex == FindIndex(ns, LAMBDA n : n.id = ids)
        unchanged(error) ==
            [error |-> error, removed |-> FALSE, nodes |-> ns, edges |-> es,
             v2Properties |-> props, returned |-> <<>>]
    IN
    IF ids \in PROTECTED_NODE_IDS THEN unchanged("Cannot delete protected node")
    ELSE IF nodeStartIndex = 0 THEN unchanged("")
    ELSE
    LET startNode == ns[nodeStartIndex]
        customIdentifier == EndIdentifier(startNode.type, startNode.id)
        found == FindIndex(ns, LAMBDA n : n.id = customIdentifier)
        endIndex == IF found = 0 THEN nodeStartIndex ELSE found
        endNode == ns[endIndex]
        range == SubSeq(ns, nodeStartIndex, endIndex)
        idArray == Ids(range)
        kept == Filter(es, LAMBDA e : ~(e.source \in idArray \/ e.target \in idArray))
        \* another trigger stays on the lane: the deleted one is not reconnected
        considered ==
            IF ids \in TriggerKinds
               /\ \E i \in 1..Len(es) : es[i].source = "trigger_start" /\ es[i].target # ids
            THEN Filter(es, LAMBDA e : e.source \notin idArray)
            ELSE es
        sources == Filter(considered, LAMBDA e : e.target = startNode.id)
        targets == Filter(considered, LAMBDA e : e.source = endNode.id)
        finalEdges == kept \o Reconnections(sources, targets)
    IN
    \* nodes[endIndex + 1] is undefined when the range ends the node list
    IF endIndex + 1 > Len(ns) THEN unchanged("TypeError")
    ELSE
    LET newNode == createDefaultNodeV2(ns[endIndex + 1], ns[endIndex + 1].id)
    IN [error |-> "", removed |-> TRUE,
        nodes |-> SubSeq(ns, 1, nodeStartIndex - 1) \o <<newNode>>
                  \o SubSeq(ns, endIndex + 2, Len(ns)),
        edges |-> finalEdges,
        v2Properties |-> IF ids \in TriggerKinds THEN Remove(props, ids) ELSE props,
        returned |-> <<ids>>]

----------------------------------------------------------------------------
(* onConnect, onLayout, updateDefinition *)

\* canConnect without the case of the foreach Container
canConnect_ContainerCapped(ns, es, source, target) ==
    IF ~HasNode(ns, source) \/ ~HasNode(ns, target) THEN FALSE
    ELSE LET sourceNode == NodeOf(ns, source) IN
         IF sourceNode.componentType = "switch"
         THEN Len(OutEdges(es, source)) < 2
         ELSE Len(OutEdges(es, source)) = 0

\* canConnect with a cap of three on the edges out of a Switch
canConnect_SwitchThirdEdge(ns, es, source, target) ==
    IF ~HasNode(ns, source) \/ ~HasNode(ns, target) THEN FALSE
    ELSE LET sourceNode == NodeOf(ns, source) IN
         IF sourceNode.componentType = "switch"
         THEN Len(OutEdges(es, source)) <= 2
         ELSE IF sourceNode.componentType = "container" /\ sourceNode.type = "foreach"
         THEN TRUE
         ELSE Len(OutEdges(es, source)) = 0

\* canConnect of onConnect: the outgoing-edge caps by the source's variant
canConnect(ns, es, source, target) ==
    IF ~HasNode(ns, source) \/ ~HasNode(ns, target) THEN FALSE
    ELSE LET sourceNode == NodeOf(ns, source) IN
         IF sourceNode.componentType = "switch"
         THEN Len(OutEdges(es, source)) < 2
         ELSE IF sourceNode.componentType = "container" /\ sourceNode.type = "foreach"
         THEN TRUE
         ELSE Len(OutEdges(es, source)) = 0

\* addEdge of @xyflow/react: the edge is appended unless the list already
\* connects source to target
addEdge(edge, es) ==
    IF \E i \in 1..Len(es) : es[i].source = edge.source /\ es[i].target = edge.target
    THEN es ELSE Append(es, edge)

\* the nodes of onConnect where only the target loses the draggable flag
ConnectedNodes_TargetOnly(ns, source, target) ==
    [i \in 1..Len(ns) |->
        IF ns[i].id = target
        THEN [ns[i] EXCEPT !.prevStepId = source, !.isDraggable = FALSE]
        ELSE ns[i]]

\* the nodes onConnect sets: both ends lose the draggable flag
ConnectedNodes(ns, source, target) ==
    [i \in 1..Len(ns) |->
        IF ns[i].id = target
        THEN [ns[i] EXCEPT !.prevStepId = source, !.isDraggable = FALSE]
        ELSE IF ns[i].id = source
        THEN [ns[i] EXCEPT !.isDraggable = FALSE]
        ELSE ns[i]]

\* a layout that hands the nodes back in the opposite order
LayoutedNodes_Reversed(ns) ==
    [i \in 1..Len(ns) |-> [ns[Len(ns) + 1 - i] EXCEPT !.isLayouted = TRUE]]

\* the nodes onLayout sets: same nodes, same order, each flagged layouted
LayoutedNodes(ns) == [i \in 1..Len(ns) |-> [ns[i] EXCEPT !.isLayouted = TRUE]]

\* what updateDefinition sets for the given graph and properties
UpdatedDefinition(ns, es, props) ==
    LET def == reConstructWorklowToDefinition(ns, es, props)
        v == validateDefinition(def)
    IN [definition |-> [sequence |-> def.sequence, properties |-> def.properties,
                        isValid |-> v.isValid],
        validationErrors |-> v.validationErrors,
        canDeploy |-> v.canDeploy]

----------------------------------------------------------------------------
(* The inputs of the commands *)

\* the steps the toolbox offers, and payloads that fail their schema
TaskPayload == Payload(NullId, "slack-action", "action-slack", "task", "error", Undefined)
SwitchPayload == Payload(NullId, "assert", SwitchType, "switch", "none", Undefined)
ForeachPayload == Payload(NullId, "foreach", ContainerType, "container", "none", Undefined)
MalformedStep == Payload(NullId, "", "action-slack", "task", "none", Undefined)
MalformedTrigger == Payload("manual", "manual", "webhook", "trigger", "none", Undefined)

\* the trigger kinds the commands are issued with
IssuedTriggerKinds == {"manual", "alert"}

Payloads ==
    {TaskPayload, SwitchPayload, ForeachPayload, MalformedStep, MalformedTrigger, NoStep}
    \cup {TriggerPayload(k, Undefined) : k \in IssuedTriggerKinds}

\* an id that names no node
UnknownId == "ghost"

----------------------------------------------------------------------------
(* Initial state: initializeWorkflow on a loaded definition *)

\* the trigger steps of the properties map, in a fixed order, between the
\* sentinels of the trigger lane
TriggerOrder == <<"manual", "interval", "alert", "incident">>

getTriggerSteps(properties) ==
    <<Leaf("trigger_start", "trigger_start", "trigger_start", "trigger", "none")>>
    \o [i \in 1..Len(SelectSeq(TriggerOrder, LAMBDA k : k \in DOMAIN properties)) |->
          LET k == SelectSeq(TriggerOrder, LAMBDA x : x \in DOMAIN properties)[i]
          IN Leaf(k, k, k, "trigger", "none")]
    \o <<Leaf("trigger_end", "trigger_end", "trigger_end", "trigger", "none")>>

\* a saved workflow: a Switch with an action in its false branch
LoadedSwitch ==
    Step("s1", "assert", SwitchType, "switch", "none",
         <<Leaf("f1", "notify", "action-slack", "task", "none")>>, <<>>, <<>>)

\* the definitions a workflow is initialized from: a new workflow without
\* steps, with no trigger or with a manual trigger, and the saved workflow
InitDefinitions ==
    {[sequence |-> <<>>, properties |-> Put(EmptyMap, "name", "wf")],
     [sequence |-> <<>>, properties |-> Put(Put(EmptyMap, "name", "wf"), "manual", "true")],
     [sequence |-> <<LoadedSwitch>>,
      properties |-> Put(Put(EmptyMap, "name", "wf"), "manual", "true")]}

\* the nodes, edges and properties initializeWorkflow sets for a definition
InitializedGraph(def) ==
    LET fullSequence == <<StartStep>> \o getTriggerSteps(def.properties)
                        \o def.sequence \o <<EndStep>>
        g == processWorkflowV2(fullSequence)
    IN [nodes |-> g.nodes, edges |-> g.edges,
        v2Properties |-> Put(def.properties, "name", def.properties["name"])]

\* the record of the last command: its name, the error it threw ("" when it
\* threw none), whether it changed the graph, the id it returned (the new node
\* of addNodeBetween, the node deleteNodes removed, the target of onConnect),
\* the variant of the step inserted (the source of onConnect), and the
\* position of the anchor edge of addNodeBetween
NoCmd ==
    [op |-> "initializeWorkflow", error |-> "", done |-> TRUE, id |-> NullId,
     kind |-> "", at |-> 0]

Init ==
    \E def \in InitDefinitions :
        LET g == InitializedGraph(def)
            ns == LayoutedNodes(g.nodes)
            u == UpdatedDefinition(ns, g.edges, g.v2Properties)
        IN /\ nodes = ns
           /\ edges = g.edges
           /\ v2Properties = g.v2Properties
           /\ definition = u.definition
           /\ validationErrors = u.validationErrors
           /\ canDeploy = u.canDeploy
           /\ selectedNode = NullId
           /\ selectedEdge = NullId
           /\ isLayouted = TRUE
           /\ changes = 0
           /\ editorOpen = TRUE
           /\ uuids = IF def.sequence = <<>> THEN 0 ELSE MaxUuids - LoadedBudget
           /\ connects = 0
           /\ lastCmd = NoCmd

\* the findings the steps of the validated workflows carry
StepFindings == {"none", "warning", "error"}

\* the saved workflows validateDefinition is applied to: two actions, of the
\* same name or not, on the top level or in the branches of a Switch; an
\* action in a Container in a branch of a Switch; an action in a branch of a
\* Switch in a Container
ValidatedSequences ==
    LET t1(f) == Leaf("t1", "notify", "action-slack", "task", f)
        t2(n, f) == Leaf("t2", n, "action-slack", "task", f)
        s1(bFalse, bTrue) ==
            Step("s1", "assert", SwitchType, "switch", "none", bFalse, bTrue, <<>>)
        c1(body) ==
            Step("c1", "foreach", ContainerType, "container", "none", <<>>, <<>>, body)
    IN UNION {
         { <<t1(f), t2(n, g)>> : n \in {"notify", "page"}, g \in StepFindings }
         \cup { <<s1(<<t1(f)>>, <<t2(n, g)>>)>> :
                  n \in {"notify", "page"}, g \in StepFindings }
         \cup { <<s1(<<c1(<<t1(f)>>)>>, <<>>)>>, <<c1(<<s1(<<t1(f)>>, <<>>)>>)>> }
         : f \in StepFindings }

ValidatedDefinitions ==
    {[sequence |-> seq,
      properties |-> Put(Put(EmptyMap, "name", "wf"), "manual", "true")] :
        seq \in ValidatedSequences}

\* the store after initializeWorkflow of a saved workflow to validate; no
\* step is inserted into it
InitValidate ==
    \E def \in ValidatedDefinitions :
        LET g == InitializedGraph(def)
            ns == LayoutedNodes(g.nodes)
            u == UpdatedDefinition(ns, g.edges, g.v2Properties)
        IN /\ nodes = ns
           /\ edges = g.edges
           /\ v2Properties = g.v2Properties
           /\ definition = u.definition
           /\ validationErrors = u.validationErrors
           /\ canDeploy = u.canDeploy
           /\ selectedNode = NullId
           /\ selectedEdge = NullId
           /\ isLayouted = TRUE
           /\ changes = 0
           /\ editorOpen = TRUE
           /\ uuids = MaxUuids
           /\ connects = 0
           /\ lastCmd = NoCmd

----------------------------------------------------------------------------
(* The commands *)

\* what set(...), onLayout and updateDefinition leave in the store after a
\* structural edit that produced the graph ns, es with the properties props
Committed(ns, es, props) ==
    LET laid == LayoutedNodes(ns)
        u == UpdatedDefinition(laid, es, props)
    IN /\ nodes' = laid
       /\ edges' = es
       /\ v2Properties' = props
       /\ isLayouted' = TRUE
       /\ changes' = changes + 1
       /\ definition' = u.definition
       /\ validationErrors' = u.validationErrors
       /\ canDeploy' = u.canDeploy

\* store.addNodeBetween(nodeOrEdgeId, step, type), when it returns: the
\* graph is spliced, laid out and decompiled, and the new node is selected
AddNodeBetween(type, nodeOrEdgeId, rawStep) ==
    LET r == AddNodeBetweenCore(nodes, edges, v2Properties, type, nodeOrEdgeId,
                                rawStep, Uuid(uuids + 1))
    IN /\ r.error = ""
       /\ changes < MaxChanges
       /\ rawStep.componentType # "trigger" => uuids < MaxUuids
       /\ Committed(r.nodes, r.edges, r.v2Properties)
       /\ selectedNode' = r.newNodeId
       /\ selectedEdge' = NullId
       /\ uuids' = IF rawStep.componentType = "trigger" THEN uuids ELSE uuids + 1
       /\ lastCmd' = [op |-> "addNodeBetween", error |-> "", done |-> TRUE,
                      id |-> r.newNodeId, kind |-> rawStep.componentType,
                      at |-> r.edge]
       /\ UNCHANGED <<editorOpen, connects>>

\* store.addNodeBetween(nodeOrEdgeId, step, type), when it throws
AddNodeBetweenThrows(type, nodeOrEdgeId, rawStep) ==
    LET r == AddNodeBetweenCore(nodes, edges, v2Properties, type, nodeOrEdgeId,
                                rawStep, Uuid(uuids + 1))
    IN /\ r.error # ""
       /\ nodes' = r.nodes
       /\ edges' = r.edges
       /\ v2Properties' = r.v2Properties
       /\ lastCmd' = [op |-> "addNodeBetween", error |-> r.error, done |-> FALSE,
                      id |-> NullId, kind |-> "", at |-> 0]
       /\ UNCHANGED <<definition, validationErrors, canDeploy, selectedNode,
                      selectedEdge, isLayouted, changes, editorOpen, uuids, connects>>

\* the catch branch of addNodeBetweenSafe writing the selection
AddNodeBetweenSafeCaught_ClearsSelection(type, nodeOrEdgeId, rawStep) ==
    LET r == AddNodeBetweenCore(nodes, edges, v2Properties, type, nodeOrEdgeId,
                                rawStep, Uuid(uuids + 1))
    IN /\ r.error # ""
       /\ selectedNode' = NullId
       /\ selectedEdge' = NullId
       /\ lastCmd' = [op |-> "addNodeBetweenSafe", error |-> "", done |-> FALSE,
                      id |-> NullId, kind |-> "", at |-> 0]
       /\ UNCHANGED <<nodes, edges, v2Properties, definition, validationErrors,
                      canDeploy, isLayouted, changes, editorOpen, uuids, connects>>

\* store.addNodeBetweenSafe(nodeOrEdgeId, step, type), when addNodeBetween
\* returns: the try block runs to its end and the new id is returned
AddNodeBetweenSafe(type, nodeOrEdgeId, rawStep) ==
    LET r == AddNodeBetweenCore(nodes, edges, v2Properties, type, nodeOrEdgeId,
                                rawStep, Uuid(uuids + 1))
    IN /\ r.error = ""
       /\ changes < MaxChanges
       /\ rawStep.componentType # "trigger" => uuids < MaxUuids
       /\ Committed(r.nodes, r.edges, r.v2Properties)
       /\ selectedNode' = r.newNodeId
       /\ selectedEdge' = NullId
       /\ uuids' = IF rawStep.componentType = "trigger" THEN uuids ELSE uuids + 1
       /\ lastCmd' = [op |-> "addNodeBetweenSafe", error |-> "", done |-> TRUE,
                      id |-> r.newNodeId, kind |-> rawStep.componentType,
                      at |-> r.edge]
       /\ UNCHANGED <<editorOpen, connects>>

\* store.addNodeBetweenSafe(nodeOrEdgeId, step, type), when addNodeBetween
\* throws: the error is caught and shown, and null is returned
AddNodeBetweenSafeCaught(type, nodeOrEdgeId, rawStep) ==
    LET r == AddNodeBetweenCore(nodes, edges, v2Properties, type, nodeOrEdgeId,
                                rawStep, Uuid(uuids + 1))
    IN /\ r.error # ""
       /\ nodes' = r.nodes
       /\ edges' = r.edges
       /\ v2Properties' = r.v2Properties
       /\ lastCmd' = [op |-> "addNodeBetweenSafe", error |-> "", done |-> FALSE,
                      id |-> NullId, kind |-> "", at |-> 0]
       /\ UNCHANGED <<definition, validationErrors, canDeploy, selectedNode,
                      selectedEdge, isLayouted, changes, editorOpen, uuids, connects>>

\* store.deleteNodes(ids), when it removes the range of ids
DeleteNodes(ids) ==
    LET r == DeleteNodesCore(nodes, edges, v2Properties, ids)
    IN /\ r.removed
       /\ changes < MaxChanges
       /\ Committed(r.nodes, r.edges, r.v2Properties)
       /\ selectedNode' = NullId
       /\ editorOpen' = TRUE
       /\ lastCmd' = [op |-> "deleteNodes", error |-> "", done |-> TRUE,
                      id |-> ids, kind |-> "", at |-> 0]
       /\ UNCHANGED <<selectedEdge, uuids, connects>>

\* store.deleteNodes(ids), when it throws or returns [] (an unknown id)
DeleteNodesRefused(ids) ==
    LET r == DeleteNodesCore(nodes, edges, v2Properties, ids)
    IN /\ ~r.removed
       /\ nodes' = r.nodes
       /\ edges' = r.edges
       /\ v2Properties' = r.v2Properties
       /\ lastCmd' = [op |-> "deleteNodes", error |-> r.error, done |-> FALSE,
                      id |-> ids, kind |-> "", at |-> 0]
       /\ UNCHANGED <<definition, validationErrors, canDeploy, selectedNode,
                      selectedEdge, isLayouted, changes, editorOpen, uuids, connects>>

\* store.onConnect({source, target}), when the connection is allowed
OnConnect(source, target) ==
    /\ canConnect(nodes, edges, source, target)
    /\ connects < MaxConnects
    /\ edges' = addEdge([source |-> source, target |-> target, label |-> ""], edges)
    /\ nodes' = ConnectedNodes(nodes, source, target)
    /\ connects' = connects + 1
    /\ lastCmd' = [op |-> "onConnect", error |-> "", done |-> TRUE,
                   id |-> target, kind |-> source, at |-> 0]
    /\ UNCHANGED <<v2Properties, definition, validationErrors, canDeploy,
                   selectedNode, selectedEdge, isLayouted, changes, editorOpen, uuids>>

\* store.onConnect({source, target}), when it is refused with a warning
OnConnectRefused(source, target) ==
    /\ ~canConnect(nodes, edges, source, target)
    /\ lastCmd' = [op |-> "onConnect", error |-> "", done |-> FALSE,
                   id |-> target, kind |-> source, at |-> 0]
    /\ UNCHANGED <<store, uuids, connects>>

\* the steps dragged from the toolbox onto the canvas
DroppedSteps == {TaskPayload}

\* store.onDrop(event, screenToFlowPosition): a draggable node for the step
\* in the event is appended to the node list, without an edge
OnDrop(step) ==
    /\ step # NoStep
    /\ uuids < MaxUuids
    /\ nodes' = Append(nodes,
                   [FlowNode(Uuid(uuids + 1), step.name, step.type,
                             step.componentType, step.finding, FALSE)
                    EXCEPT !.isDraggable = TRUE])
    /\ uuids' = uuids + 1
    /\ lastCmd' = [op |-> "onDrop", error |-> "", done |-> TRUE,
                   id |-> Uuid(uuids + 1), kind |-> step.componentType, at |-> 0]
    /\ UNCHANGED <<edges, v2Properties, definition, validationErrors, canDeploy,
                   selectedNode, selectedEdge, isLayouted, changes, editorOpen,
                   connects>>

\* store.onLayout({direction}): the layout pass on the stored graph; of an
\* edge it sets only the animated flag and the layouted flag of its data,
\* which the edges of the model do not carry
OnLayout ==
    /\ nodes' = LayoutedNodes(nodes)
    /\ isLayouted' = TRUE
    /\ lastCmd' = [op |-> "onLayout", error |-> "", done |-> TRUE,
                   id |-> NullId, kind |-> "", at |-> 0]
    /\ UNCHANGED <<edges, v2Properties, definition, validationErrors, canDeploy,
                   selectedNode, selectedEdge, changes, editorOpen, uuids,
                   connects>>

\* store.setSelectedNode(id)
SetSelectedNode(id) ==
    /\ selectedNode' = id
    /\ selectedEdge' = NullId
    /\ editorOpen' = (id # NullId)
    /\ lastCmd' = [op |-> "setSelectedNode", error |-> "", done |-> TRUE,
                   id |-> id, kind |-> "", at |-> 0]
    /\ UNCHANGED <<nodes, edges, v2Properties, definition, validationErrors,
                   canDeploy, isLayouted, changes, uuids, connects>>

\* the id of an edge: createCustomEdgeMeta names it after its two ends
EdgeId(e) == "e" \o e.source \o "-" \o e.target

\* setSelectedEdge leaving the selected node as it is
SetSelectedEdge_KeepsNode(at) ==
    /\ at \in 1..Len(edges)
    /\ selectedEdge' = EdgeId(edges[at])
    /\ \E open \in BOOLEAN : editorOpen' = open
    /\ lastCmd' = [op |-> "setSelectedEdge", error |-> "", done |-> TRUE,
                   id |-> EdgeId(edges[at]), kind |-> "", at |-> at]
    /\ UNCHANGED <<nodes, edges, v2Properties, definition, validationErrors,
                   canDeploy, selectedNode, isLayouted, changes, uuids, connects>>

\* store.setSelectedEdge(id) for the id of the edge at a position of the edge
\* list; what edgeCanHaveAddButton answers for the edge is left open
SetSelectedEdge(at) ==
    /\ at \in 1..Len(edges)
    /\ selectedEdge' = EdgeId(edges[at])
    /\ selectedNode' = NullId
    /\ \E open \in BOOLEAN : editorOpen' = open
    /\ lastCmd' = [op |-> "setSelectedEdge", error |-> "", done |-> TRUE,
                   id |-> EdgeId(edges[at]), kind |-> "", at |-> at]
    /\ UNCHANGED <<nodes, edges, v2Properties, definition, validationErrors,
                   canDeploy, isLayouted, changes, uuids, connects>>

\* store.setSelectedEdge(id) for an id no edge has: it returns at once
SetSelectedEdgeUnknown(id) ==
    /\ \A at \in 1..Len(edges) : EdgeId(edges[at]) # id
    /\ lastCmd' = [op |-> "setSelectedEdge", error |-> "", done |-> FALSE,
                   id |-> id, kind |-> "", at |-> 0]
    /\ UNCHANGED <<nodes, edges, v2Properties, definition, validationErrors,
                   canDeploy, selectedNode, selectedEdge, isLayouted, changes,
                   editorOpen, uuids, connects>>

\* definition: null, as defaultState has it
NoDefinition == [null |-> TRUE]

\* store.reset(): set(defaultState)
Reset ==
    /\ nodes' = <<>>
    /\ edges' = <<>>
    /\ selectedNode' = NullId
    /\ selectedEdge' = NullId
    /\ v2Properties' = EmptyMap
    /\ editorOpen' = FALSE
    /\ isLayouted' = FALSE
    /\ changes' = 0
    /\ canDeploy' = FALSE
    /\ definition' = NoDefinition
    /\ validationErrors' = EmptyMap
    /\ lastCmd' = [NoCmd EXCEPT !.op = "reset"]
    /\ UNCHANGED <<uuids, connects>>

\* store.setDefinition(def)
SetDefinition(def) ==
    /\ definition' = [sequence |-> def.sequence, properties |-> def.properties,
                      isValid |-> TRUE]
    /\ lastCmd' = [NoCmd EXCEPT !.op = "setDefinition"]
    /\ UNCHANGED <<nodes, edges, v2Properties, validationErrors, canDeploy,
                   selectedNode, selectedEdge, isLayouted, changes, editorOpen,
                   uuids, connects>>

\* the node initializeWorkflow selects: when the same workflow is loaded
\* again and a node is selected, the first new node that has the name of the
\* selected one; none otherwise
ReselectedNode(ns, selected, newNodes, isUpdatingExistingState) ==
    IF isUpdatingExistingState /\ selected # NullId /\ HasNode(ns, selected)
    THEN LET at == FindIndex(newNodes, LAMBDA n : n.name = NodeOf(ns, selected).name)
         IN IF at = 0 THEN NullId ELSE newNodes[at].id
    ELSE NullId

\* function initializeWorkflow(workflowId, ...), when a definition is set:
\* isNew stands for workflowId === null, isUpdatingExistingState for the
\* workflowId being the one the store holds
InitializeWorkflow(isNew, isUpdatingExistingState) ==
    /\ definition # NoDefinition
    /\ LET g == InitializedGraph(definition)
           ns == LayoutedNodes(g.nodes)
           u == UpdatedDefinition(ns, g.edges, g.v2Properties)
       IN /\ nodes' = ns
          /\ edges' = g.edges
          /\ v2Properties' = g.v2Properties
          /\ definition' = u.definition
          /\ validationErrors' = u.validationErrors
          /\ canDeploy' = u.canDeploy
          /\ selectedNode' = ReselectedNode(nodes, selectedNode, g.nodes,
                                            isUpdatingExistingState)
    /\ isLayouted' = TRUE
    /\ editorOpen' = (isNew \/ (isUpdatingExistingState /\ editorOpen))
    /\ lastCmd' = NoCmd
    /\ UNCHANGED <<selectedEdge, changes, uuids, connects>>

\* function initializeWorkflow(workflowId, ...), when the definition is null
InitializeWorkflowThrows ==
    /\ definition = NoDefinition
    /\ lastCmd' = [op |-> "initializeWorkflow",
                   error |-> "Definition should be set before initializing workflow",
                   done |-> FALSE, id |-> NullId, kind |-> "", at |-> 0]
    /\ UNCHANGED <<nodes, edges, v2Properties, definition, validationErrors,
                   canDeploy, selectedNode, selectedEdge, isLayouted, changes,
                   editorOpen, uuids, connects>>

\* store.setLastDeployedAt(deployedAt)
SetLastDeployedAt ==
    /\ changes # 0
    /\ changes' = 0
    /\ lastCmd' = [NoCmd EXCEPT !.op = "setLastDeployedAt"]
    /\ UNCHANGED <<nodes, edges, v2Properties, definition, validationErrors,
                   canDeploy, selectedNode, selectedEdge, isLayouted, editorOpen,
                   uuids, connects>>

\* the keys and values updateSelectedNodeData is called with: the step's name
\* (Undefined deletes the key) and its configuration, which stands here as the
\* finding the per-step checks return for it
NodeDataUpdates ==
    {<<"name", Undefined>>, <<"finding", "warning">>}

\* node.data[key] = value, or delete node.data[key], on the selected node
NodesWithData(ns, id, key, value) ==
    [i \in 1..Len(ns) |->
        IF ns[i].id # id THEN ns[i]
        ELSE IF key = "name"
        THEN [ns[i] EXCEPT !.name = IF value = Undefined THEN "" ELSE value]
        ELSE [ns[i] EXCEPT !.finding = IF value = Undefined THEN "none" ELSE value]]

\* the definition, validationErrors and canDeploy that updateDefinition sets
\* left as they are
Regenerated_Stale(ns, es, props) ==
    UNCHANGED <<definition, validationErrors, canDeploy>>

\* get().updateDefinition() on the graph and properties just set
Regenerated(ns, es, props) ==
    LET u == UpdatedDefinition(ns, es, props)
    IN /\ definition' = u.definition
       /\ validationErrors' = u.validationErrors
       /\ canDeploy' = u.canDeploy

\* store.updateSelectedNodeData(key, value) with a node selected
UpdateSelectedNodeData(key, value) ==
    /\ selectedNode # NullId
    /\ changes < MaxChanges
    /\ nodes' = NodesWithData(nodes, selectedNode, key, value)
    /\ nodes' # nodes
    /\ changes' = changes + 1
    /\ Regenerated(nodes', edges, v2Properties)
    /\ lastCmd' = [op |-> "updateSelectedNodeData", error |-> "", done |-> TRUE,
                   id |-> selectedNode, kind |-> key, at |-> 0]
    /\ UNCHANGED <<edges, v2Properties, selectedNode, selectedEdge, isLayouted,
                   editorOpen, uuids, connects>>

\* the partial property maps updateV2Properties is called with
PropertyUpdates ==
    {Put(EmptyMap, "name", "wf2")}

\* {...get().v2Properties, ...properties}
Merged(props, properties) ==
    [k \in (DOMAIN props) \cup (DOMAIN properties) |->
        IF k \in DOMAIN properties THEN properties[k] ELSE props[k]]

\* store.updateV2Properties(properties)
UpdateV2Properties(properties) ==
    /\ changes < MaxChanges
    /\ v2Properties' = Merged(v2Properties, properties)
    /\ v2Properties' # v2Properties
    /\ changes' = changes + 1
    /\ Regenerated(nodes, edges, v2Properties')
    /\ lastCmd' = [op |-> "updateV2Properties", error |-> "", done |-> TRUE,
                   id |-> NullId, kind |-> "", at |-> 0]
    /\ UNCHANGED <<nodes, edges, selectedNode, selectedEdge, isLayouted,
                   editorOpen, uuids, connects>>

\* store.updateSelectedNodeData(key, value) with no node selected: nothing is set
UpdateSelectedNodeDataNoSelection(key, value) ==
    /\ selectedNode = NullId
    /\ lastCmd' = [op |-> "updateSelectedNodeData", error |-> "", done |-> FALSE,
                   id |-> NullId, kind |-> key, at |-> 0]
    /\ UNCHANGED <<nodes, edges, v2Properties, definition, validationErrors,
                   canDeploy, selectedNode, selectedEdge, isLayouted, changes,
                   editorOpen, uuids, connects>>

\* the definitions the texts updateFromYamlString is called with denote
YamlDefinitions == {d \in InitDefinitions : d.sequence = <<>>}

\* updateFromYamlString counting the edit only when nothing was unsaved
UpdateFromYamlString_CountsOnce(def, isNew) ==
    /\ LET g == InitializedGraph(def)
           ns == LayoutedNodes(g.nodes)
           u == UpdatedDefinition(ns, g.edges, g.v2Properties)
       IN /\ nodes' = ns
          /\ edges' = g.edges
          /\ v2Properties' = g.v2Properties
          /\ definition' = u.definition
          /\ validationErrors' = u.validationErrors
          /\ canDeploy' = u.canDeploy
          /\ selectedNode' = ReselectedNode(nodes, selectedNode, g.nodes, TRUE)
    /\ changes' = 1
    /\ isLayouted' = TRUE
    /\ editorOpen' = (isNew \/ editorOpen)
    /\ lastCmd' = [op |-> "updateFromYamlString", error |-> "", done |-> TRUE,
                   id |-> NullId, kind |-> "", at |-> 0]
    /\ UNCHANGED <<selectedEdge, uuids, connects>>

\* store.updateFromYamlString(yamlString) for a text that parses and passes
\* the schema: the definition it denotes is set, the edit is counted and the
\* workflow is initialized again under the workflowId the store holds (isNew:
\* that id is null)
UpdateFromYamlString(def, isNew) ==
    /\ LET g == InitializedGraph(def)
           ns == LayoutedNodes(g.nodes)
           u == UpdatedDefinition(ns, g.edges, g.v2Properties)
       IN /\ nodes' = ns
          /\ edges' = g.edges
          /\ v2Properties' = g.v2Properties
          /\ definition' = u.definition
          /\ validationErrors' = u.validationErrors
          /\ canDeploy' = u.canDeploy
          /\ selectedNode' = ReselectedNode(nodes, selectedNode, g.nodes, TRUE)
    /\ changes' = changes + 1
    /\ isLayouted' = TRUE
    /\ editorOpen' = (isNew \/ editorOpen)
    /\ lastCmd' = [op |-> "updateFromYamlString", error |-> "", done |-> TRUE,
                   id |-> NullId, kind |-> "", at |-> 0]
    /\ UNCHANGED <<selectedEdge, uuids, connects>>

\* store.updateFromYamlString(yamlString) for a text that does not parse or
\* that the schema rejects: the error is logged and nothing is set
UpdateFromYamlStringInvalid ==
    /\ lastCmd' = [op |-> "updateFromYamlString", error |-> "", done |-> FALSE,
                   id |-> NullId, kind |-> "", at |-> 0]
    /\ UNCHANGED <<nodes, edges, v2Properties, definition, validationErrors,
                   canDeploy, selectedNode, selectedEdge, isLayouted, changes,
                   editorOpen, uuids, connects>>

\* useUIBuilderUnsavedChanges(): changes !== 0
useUIBuilderUnsavedChanges == changes # 0

\* the edits: the insertions and deletions that go through, and a deploy
Edits ==
    \/ \E rawStep \in Payloads :
         \/ \E id \in Ids(nodes) : AddNodeBetween("node", id, rawStep)
         \/ \E at \in 1..Len(edges) : AddNodeBetween("edge", at, rawStep)
    \/ \E ids \in Ids(nodes) : DeleteNodes(ids)
    \/ SetLastDeployedAt

\* inserting the step keeps the calls of uuidv4() within k: a trigger takes
\* its kind as id, every other step a new uuid
WithinUuids(rawStep, k) == rawStep.componentType = "trigger" \/ uuids < k

\* the edits with the steps inserted drawn from a set and at most k calls of
\* uuidv4()
EditsWithin(k, steps) ==
    \/ \E rawStep \in steps :
         /\ WithinUuids(rawStep, k)
         /\ \/ \E id \in Ids(nodes) : AddNodeBetween("node", id, rawStep)
            \/ \E at \in 1..Len(edges) : AddNodeBetween("edge", at, rawStep)
    \/ \E ids \in Ids(nodes) : DeleteNodes(ids)
    \/ SetLastDeployedAt

\* the steps that are not triggers
StepPayloads == {p \in Payloads : p.componentType # "trigger"}

\* the commands that throw or are refused; they leave the document as it is
Refusals ==
    \/ \E rawStep \in Payloads :
         \/ \E id \in Ids(nodes) \cup {NullId, UnknownId} :
              AddNodeBetweenThrows("node", id, rawStep)
         \/ \E at \in 0..(Len(edges) + 1) :
              AddNodeBetweenThrows("edge", at, rawStep)
    \/ \E ids \in Ids(nodes) \cup {UnknownId} : DeleteNodesRefused(ids)

\* the document under insertions and deletions
Next == Edits

Spec == Init /\ [][Next]_vars

\* the document under insertions, deletions and connections
NextConnect ==
    \/ EditsWithin(MaxUuidsConnect, Payloads)
    \/ \E source, target \in Ids(nodes) :
         connects < MaxConnectsConnect /\ OnConnect(source, target)

SpecConnect == Init /\ [][NextConnect]_vars

\* the document under insertions and deletions, the commands that throw included
NextThrows ==
    \/ EditsWithin(MaxUuidsThrows, Payloads)
    \/ Refusals

SpecThrows == Init /\ [][NextThrows]_vars

\* the document under every command that regenerates the definition, and
\* under connections; the trigger lane is left as the workflow was opened
NextSync ==
    \/ EditsWithin(MaxUuidsSync, StepPayloads) /\ lastCmd'.id \notin TriggerKinds
    \/ \E source, target \in Ids(nodes) :
         connects < MaxConnectsSync /\ OnConnect(source, target)
    \/ \E u \in NodeDataUpdates : UpdateSelectedNodeData(u[1], u[2])
    \/ \E properties \in PropertyUpdates : UpdateV2Properties(properties)

SpecSync == Init /\ [][NextSync]_vars

\* the targets of the connections drawn where the caps are explored
ConnectTargets == {"end", Uuid(MaxUuidsCaps)}

\* the sources of the connections tried where onConnect refuses
RefusedSources == {"start", Uuid(1), UnknownId}

\* the document under insertions of steps, drops, deployments, and the
\* connections that onConnect accepts or refuses
NextCaps ==
    \/ \E rawStep \in {p \in Payloads : p.componentType # "trigger"} :
         \/ \E id \in Ids(nodes) :
              WithinUuids(rawStep, MaxUuidsCaps) /\ AddNodeBetween("node", id, rawStep)
         \/ \E at \in 1..Len(edges) :
              WithinUuids(rawStep, MaxUuidsCaps) /\ AddNodeBetween("edge", at, rawStep)
    \/ \E step \in DroppedSteps : uuids < MaxUuidsCaps /\ OnDrop(step)
    \/ \E source \in Ids(nodes), target \in ConnectTargets :
         OnConnect(source, target)
    \/ \E source \in RefusedSources, target \in {"end", UnknownId} :
         OnConnectRefused(source, target)
    \/ SetLastDeployedAt

SpecCaps == Init /\ [][NextCaps]_vars

\* the document under insertions, drops, deletions, those that throw
\* included, and layout passes
NextDrop ==
    \/ EditsWithin(MaxUuidsDrop, StepPayloads) /\ lastCmd'.id \notin TriggerKinds
    \/ \E step \in DroppedSteps : uuids < MaxUuidsDrop /\ OnDrop(step)
    \/ \E ids \in Ids(nodes) \cup {UnknownId} : DeleteNodesRefused(ids)
    \/ OnLayout

SpecDrop == Init /\ [][NextDrop]_vars

\* the document under addNodeBetweenSafe, the calls whose error it catches
\* included
NextSafe ==
    \/ \E rawStep \in Payloads :
         \/ \E id \in Ids(nodes) :
              WithinUuids(rawStep, MaxUuidsSafe) /\ AddNodeBetweenSafe("node", id, rawStep)
         \/ \E at \in 1..Len(edges) :
              WithinUuids(rawStep, MaxUuidsSafe) /\ AddNodeBetweenSafe("edge", at, rawStep)
         \/ \E id \in Ids(nodes) \cup {NullId, UnknownId} :
              AddNodeBetweenSafeCaught("node", id, rawStep)
         \/ \E at \in 0..(Len(edges) + 1) :
              AddNodeBetweenSafeCaught("edge", at, rawStep)
    \/ SetLastDeployedAt

SpecSafe == Init /\ [][NextSafe]_vars

\* the definitions setDefinition is called with where the selection is explored
SelectDefinitions == {d \in InitDefinitions : d.sequence = <<>>}

\* the document under the commands that write the selection: selecting a
\* node or an edge, inserting a step, deleting, loading again and resetting
NextSelect ==
    \/ \E id \in (Ids(nodes) \ PROTECTED_NODE_IDS) \cup {NullId} : SetSelectedNode(id)
    \/ \E at \in 1..Len(edges) : SetSelectedEdge(at)
    \/ SetSelectedEdgeUnknown(UnknownId)
    \/ \E rawStep \in {TaskPayload, ForeachPayload}, at \in 1..Len(edges) :
         WithinUuids(rawStep, MaxUuidsSelect) /\ AddNodeBetween("edge", at, rawStep)
    \/ \E ids \in Ids(nodes) : DeleteNodes(ids)
    \/ \E isNew, isUpdatingExistingState \in BOOLEAN :
         InitializeWorkflow(isNew, isUpdatingExistingState)
    \/ InitializeWorkflowThrows
    \/ Reset
    \/ \E def \in SelectDefinitions : SetDefinition(def)

SpecSelect == Init /\ [][NextSelect]_vars

\* the steps inserted where the counter of unsaved changes is explored
CountedSteps == {TaskPayload, TriggerPayload("alert", Undefined)}

\* the document under every command that counts an edit, the calls of them
\* that fail or do nothing, and the commands that clear the counter
NextChanges ==
    \/ \E rawStep \in CountedSteps, at \in 1..Len(edges) :
         WithinUuids(rawStep, MaxUuidsChanges) /\ AddNodeBetween("edge", at, rawStep)
    \/ \E ids \in Ids(nodes) : DeleteNodes(ids)
    \/ SetLastDeployedAt
    \/ AddNodeBetweenThrows("edge", 1, MalformedStep)
    \/ \E ids \in {"start", UnknownId} : DeleteNodesRefused(ids)
    \/ \E id \in {Uuid(1), NullId} \cap (Ids(nodes) \cup {NullId}) : SetSelectedNode(id)
    \/ UpdateSelectedNodeData("finding", "warning")
    \/ UpdateSelectedNodeDataNoSelection("finding", "warning")
    \/ \E properties \in PropertyUpdates : UpdateV2Properties(properties)
    \/ \E def \in YamlDefinitions :
         UpdateFromYamlString(def, FALSE) /\ changes' <= MaxChangesYaml
    \/ UpdateFromYamlStringInvalid
    \/ Reset
    \/ InitializeWorkflow(FALSE, TRUE)
    \/ InitializeWorkflowThrows

SpecChanges == Init /\ [][NextChanges]_vars

\* saved workflows under validation: a step is selected and its data edited
NextValidate ==
    \/ \E id \in {"t1", "t2"} \cap Ids(nodes) : SetSelectedNode(id)
    \/ \E u \in NodeDataUpdates : UpdateSelectedNodeData(u[1], u[2])

SpecValidate == InitValidate /\ [][NextValidate]_vars

----------------------------------------------------------------------------
(* Properties *)

\* how often an edge (source, target, label) occurs in an edge list
Count(es, e) == Cardinality({i \in 1..Len(es) : es[i] = e})

\* C1: deleteNodes called with 'start', 'end', 'trigger_start' or
\* 'trigger_end' throws, whatever the state, and leaves every field of the
\* store (nodes, edges, v2Properties, definition, validationErrors, canDeploy,
\* selection, isLayouted, changes) as it was before the call.
C1_ProtectedDeleteThrows ==
    [][lastCmd'.op = "deleteNodes"
       /\ lastCmd'.id \in {"start", "end", "trigger_start", "trigger_end"}
       => /\ lastCmd'.error # ""
          /\ ~lastCmd'.done
          /\ UNCHANGED store]_vars

\* deleteNodes('trigger_end') has thrown on a graph that holds a trigger and a step
C1_Witness ==
    /\ lastCmd.op = "deleteNodes"
    /\ lastCmd.id = "trigger_end"
    /\ lastCmd.error = "Cannot delete protected node"
    /\ Len(nodes) > 5

\* C2: an addNodeBetween that fails (undefined step, undefined anchor id,
\* schema violation, no edge for the anchor, an illegal placement, a duplicate
\* trigger, a missing target node) writes nothing: nodes, edges, v2Properties,
\* definition, validationErrors, canDeploy, the selection, isLayouted and
\* changes are what they were before the call.
C2_FailedInsertWritesNothing ==
    [][lastCmd'.op = "addNodeBetween" /\ ~lastCmd'.done
       => lastCmd'.error # "" /\ UNCHANGED store]_vars

\* an insertion has been refused for its placement after an edit went through
C2_Witness ==
    /\ lastCmd.op = "addNodeBetween"
    /\ lastCmd.error = "cannot add step"
    /\ changes = 1

\* C3: inserting a trigger whose kind is already a node of the graph throws
\* and leaves nodes, edges and v2Properties as they were, whatever the anchor;
\* so no reachable graph holds two trigger nodes of one kind.
C3_OneTriggerPerKind ==
    \A k \in TriggerKinds :
        /\ Cardinality({i \in 1..Len(nodes) : nodes[i].id = k}) <= 1
        /\ HasNode(nodes, k) =>
             \A type \in {"node", "edge"} :
               \A anchor \in IF type = "node" THEN Ids(nodes) ELSE 1..Len(edges) :
                 LET r == AddNodeBetweenCore(nodes, edges, v2Properties, type, anchor,
                                             TriggerPayload(k, Undefined), Uuid(uuids + 1))
                 IN /\ r.error # ""
                    /\ r.nodes = nodes
                    /\ r.edges = edges
                    /\ r.v2Properties = v2Properties

\* a second 'manual' trigger has been refused on the trigger lane
C3_Witness ==
    /\ lastCmd.op = "addNodeBetween"
    /\ lastCmd.error = "Trigger is already in the workflow"
    /\ HasNode(nodes, "manual")
    /\ Cardinality({i \in 1..Len(nodes) : nodes[i].id = "manual"}) = 1

C5_NewSwitchHasFalseThenTrue ==
    lastCmd.op = "addNodeBetween" /\ lastCmd.done /\ lastCmd.kind = "switch"
    => LET out == OutEdges(edges, lastCmd.id)
       IN /\ Len(out) = 2
          /\ out[1].label = "false"
          /\ out[2].label = "true"

\* a Switch has been inserted behind a step
C5_Witness ==
    /\ lastCmd.op = "addNodeBetween" /\ lastCmd.done /\ lastCmd.kind = "switch"
    /\ lastCmd.id = Uuid(2)
    /\ NodeOf(nodes, lastCmd.id).componentType = "switch"
    /\ Len(OutEdges(edges, lastCmd.id)) = 2

\* C6: in every reachable state every Switch node has exactly two outgoing
\* edges, and in edge-list order they are labeled 'false', then 'true'.
C6_EverySwitchHasFalseThenTrue ==
    \A i \in 1..Len(nodes) :
        nodes[i].componentType = "switch"
        => LET out == OutEdges(edges, nodes[i].id)
           IN /\ Len(out) = 2
              /\ out[1].label = "false"
              /\ out[2].label = "true"

\* the ids a list of nodes holds, in list order
IdList(ns) == [i \in 1..Len(ns) |-> ns[i].id]

\* the edges of an edge list as a set of (source, target, label)
EdgeSet(es) == {es[i] : i \in 1..Len(es)}

\* C7: inserting a Task or a Trigger on an edge where the insertion is legal
\* and then deleting the node just inserted gives the graph back: the same
\* node ids in the same list order and the same set of edges (source, target,
\* label).
C7_InsertThenDeleteIsIdentity ==
    \A rawStep \in {TaskPayload} \cup {TriggerPayload(k, Undefined) : k \in IssuedTriggerKinds} :
      \A at \in 1..Len(edges) :
        LET a == AddNodeBetweenCore(nodes, edges, v2Properties, "edge", at, rawStep,
                                    Uuid(uuids + 1))
            d == DeleteNodesCore(a.nodes, a.edges, a.v2Properties, a.newNodeId)
        IN a.error = ""
           => /\ d.removed
              /\ IdList(d.nodes) = IdList(nodes)
              /\ EdgeSet(d.edges) = EdgeSet(edges)

\* the ids reached from the ids in `seen` along the edges, not going on from `stop`
RECURSIVE ReachedFrom(_, _, _)
ReachedFrom(es, seen, stop) ==
    LET more == seen \cup {es[i].target : i \in {j \in 1..Len(es) : es[j].source \in seen \ {stop}}}
    IN IF more = seen THEN seen ELSE ReachedFrom(es, more, stop)

\* a Switch and the nodes of its region: what its branches reach up to the
\* node that closes the region
RegionOf(ns, es, s) == ReachedFrom(es, {s.id}, EndIdentifier(s.type, s.id))

\* a Switch one of whose branch edges leads to a step
HasNestedStep(ns, es, s) ==
    /\ s.componentType = "switch"
    /\ \E i \in 1..Len(es) :
          /\ es[i].source = s.id
          /\ es[i].target # EndIdentifier(s.type, s.id)
          /\ HasNode(ns, es[i].target)
          /\ NodeOf(ns, es[i].target).componentType \in {"task", "switch", "container"}

\* C8: deleting a Switch that has a step nested in one of its branches takes
\* the Switch and every node of its region out of the node list, and leaves
\* exactly one edge from each former predecessor of the Switch to the former
\* successor of the region.
C8_DeleteSwitchRemovesRegion ==
    \A i \in 1..Len(nodes) :
        HasNestedStep(nodes, edges, nodes[i])
        => LET s == nodes[i]
               region == RegionOf(nodes, edges, s)
               preds == {edges[j].source : j \in {k \in 1..Len(edges) : edges[k].target = s.id}}
               succs == {edges[j].target : j \in {k \in 1..Len(edges) :
                             edges[k].source \in region /\ edges[k].target \notin region}}
               d == DeleteNodesCore(nodes, edges, v2Properties, s.id)
           IN /\ d.removed
              /\ \A id \in region : ~HasNode(d.nodes, id)
              /\ \A p \in preds : \A q \in succs :
                    Cardinality({j \in 1..Len(d.edges) :
                                    d.edges[j].source = p /\ d.edges[j].target = q}) = 1
              /\ \A p \in preds :
                    Cardinality({j \in 1..Len(d.edges) : d.edges[j].source = p})
                    = Cardinality({j \in 1..Len(edges) : edges[j].source = p})

\* C9: in every state reached by addNodeBetween, deleteNodes and onConnect
\* the source and the target of every edge are ids of nodes of the node list.
C9_NoDanglingEdges ==
    \A i \in 1..Len(edges) :
        HasNode(nodes, edges[i].source) /\ HasNode(nodes, edges[i].target)

\* C10: a deleteNodes of a range that is not a trigger adds, for every edge
\* p -> entry into the range and every edge exit -> s out of it, exactly one
\* edge p -> s with the label of p -> entry, and keeps only the edges that do
\* not touch the range; and when it deletes the first step of a branch of a
\* Switch, the Switch is left with two outgoing edges of distinct labels.
C10_ReconnectionKeepsLabels ==
    [][lastCmd'.op = "deleteNodes" /\ lastCmd'.done /\ lastCmd'.id \notin TriggerKinds
       => LET gone == Ids(nodes) \ Ids(nodes')
              entry == lastCmd'.id
              last == CHOOSE i \in 1..Len(nodes) :
                         /\ nodes[i].id \in gone
                         /\ \A j \in 1..Len(nodes) : nodes[j].id \in gone => j <= i
              exit == nodes[last].id
              ins == {i \in 1..Len(edges) : edges[i].target = entry}
              outs == {j \in 1..Len(edges) : edges[j].source = exit}
              kept == {i \in 1..Len(edges) :
                          edges[i].source \notin gone /\ edges[i].target \notin gone}
              added(x) == {ij \in ins \X outs :
                              x = [source |-> edges[ij[1]].source,
                                   target |-> edges[ij[2]].target,
                                   label |-> edges[ij[1]].label]}
          IN /\ \A x \in EdgeSet(edges') \cup EdgeSet(edges) :
                   Count(edges', x)
                   = Cardinality({i \in kept : edges[i] = x}) + Cardinality(added(x))
             /\ \A i \in ins :
                   edges[i].source \in Ids(nodes')
                   /\ NodeOf(nodes, edges[i].source).componentType = "switch"
                   => LET out == OutEdges(edges', edges[i].source)
                      IN Len(out) = 2 /\ out[1].label # out[2].label]_vars

\* the nodes of kind trigger: their id is their kind
IsTriggerNode(n) == n.id \in TriggerKinds

\* C11: a Trigger is refused on every edge whose source is not trigger_start
\* and a step that is not a Trigger is refused on every edge whose source is
\* trigger_start; and in every graph reached by insertions and deletions the
\* only edge into a trigger node comes from trigger_start, its only edge out
\* goes to trigger_end, and no edge joins a trigger node to the main lane.
C11_TriggersStayOnTheirLane ==
    /\ \A at \in 1..Len(edges) :
         \A rawStep \in {TaskPayload, SwitchPayload, ForeachPayload}
                        \cup {TriggerPayload(k, Undefined) : k \in TriggerKinds} :
           (rawStep.componentType = "trigger") # (edges[at].source = "trigger_start")
           => AddNodeBetweenCore(nodes, edges, v2Properties, "edge", at, rawStep,
                                 Uuid(uuids + 1)).error # ""
    /\ \A i \in 1..Len(nodes) :
         IsTriggerNode(nodes[i])
         => /\ InEdges(edges, nodes[i].id)
               = <<[source |-> "trigger_start", target |-> nodes[i].id, label |-> ""]>>
            /\ OutEdges(edges, nodes[i].id)
               = <<[source |-> nodes[i].id, target |-> "trigger_end", label |-> ""]>>

\* a step has been refused on the trigger lane, which holds two triggers
C11_Witness ==
    /\ lastCmd.op = "addNodeBetween"
    /\ lastCmd.error = "Only trigger can be added at the start of the workflow"
    /\ HasNode(nodes, "manual") /\ HasNode(nodes, "alert")
    /\ Len(OutEdges(edges, "trigger_start")) = 2

C13_ConnectCapsEnforced ==
    [][lastCmd'.op = "onConnect"
       => LET source == lastCmd'.kind
              target == lastCmd'.id
              out == Len(OutEdges(edges, source))
          IN /\ lastCmd'.error = ""
             /\ lastCmd'.done
                => /\ HasNode(nodes, source) /\ HasNode(nodes, target)
                   /\ canConnect(nodes, edges, source, target)
                   /\ NodeOf(nodes, source).componentType = "switch" => out < 2
                   /\ ( /\ NodeOf(nodes, source).componentType # "switch"
                        /\ ~( /\ NodeOf(nodes, source).componentType = "container"
                              /\ NodeOf(nodes, source).type = "foreach") )
                      => out = 0
             /\ ~lastCmd'.done
                => /\ ~canConnect(nodes, edges, source, target)
                   /\ UNCHANGED <<nodes, edges>>
             /\ ( \/ ~HasNode(nodes, source) \/ ~HasNode(nodes, target)
                  \/ NodeOf(nodes, source).componentType = "switch" /\ out >= 2 )
                => ~lastCmd'.done /\ UNCHANGED <<nodes, edges>>]_vars

\* a connection out of a Switch with one outgoing edge has been accepted
C13_Witness ==
    /\ lastCmd.op = "onConnect" /\ lastCmd.done
    /\ NodeOf(nodes, lastCmd.kind).componentType = "switch"
    /\ Len(OutEdges(edges, lastCmd.kind)) = 2

\* C14: a connection out of a foreach Container to a node of the list is
\* accepted whatever the number of edges out of the Container, and each
\* accepted connection to a target not connected yet gives the Container one
\* more outgoing edge.
C14_ContainerFanOutUnbounded ==
    \A i, j \in 1..Len(nodes) :
        (nodes[i].componentType = "container" /\ nodes[i].type = "foreach")
        => LET source == nodes[i].id
               target == nodes[j].id
               connected == addEdge([source |-> source, target |-> target,
                                     label |-> ""], edges)
           IN /\ canConnect(nodes, edges, source, target)
              /\ (\A k \in 1..Len(edges) :
                     ~(edges[k].source = source /\ edges[k].target = target))
                 => Len(OutEdges(connected, source))
                      = Len(OutEdges(edges, source)) + 1

\* a second connection out of a foreach Container has been accepted: the
\* Container has three outgoing edges
C14_Witness ==
    /\ lastCmd.op = "onConnect" /\ lastCmd.done
    /\ NodeOf(nodes, lastCmd.kind).componentType = "container"
    /\ NodeOf(nodes, lastCmd.kind).type = "foreach"
    /\ connects = 2
    /\ Len(OutEdges(edges, lastCmd.kind)) = 3

\* C15: an accepted onConnect(source, target) leaves an edge from source to
\* target in the edge list, keeps every edge that was there, in place, and
\* adds at most the new edge; source and target are not draggable afterwards,
\* the target records the source as its previous step, and no other node and
\* no other field of source or target changes.
C15_ConnectFrame ==
    [][(lastCmd'.op = "onConnect" /\ lastCmd'.done)
       => LET source == lastCmd'.kind
              target == lastCmd'.id
          IN /\ \E k \in 1..Len(edges') :
                   edges'[k].source = source /\ edges'[k].target = target
             /\ Len(edges') \in {Len(edges), Len(edges) + 1}
             /\ SubSeq(edges', 1, Len(edges)) = edges
             /\ Len(nodes') = Len(nodes)
             /\ \A i \in 1..Len(nodes) :
                   IF nodes[i].id = target
                   THEN nodes'[i] = [nodes[i] EXCEPT !.isDraggable = FALSE,
                                                     !.prevStepId = source]
                   ELSE IF nodes[i].id = source
                   THEN nodes'[i] = [nodes[i] EXCEPT !.isDraggable = FALSE]
                   ELSE nodes'[i] = nodes[i]
             /\ UNCHANGED <<v2Properties, definition, validationErrors,
                            canDeploy, selectedNode, selectedEdge, isLayouted,
                            changes, editorOpen>>]_vars

\* a dropped, draggable step has been connected to the end of the workflow:
\* it is the only node of the list that was draggable, and no longer is
C15_Witness ==
    /\ lastCmd.op = "onConnect" /\ lastCmd.done
    /\ lastCmd.kind # lastCmd.id
    /\ lastCmd.kind \notin PROTECTED_NODE_IDS
    /\ Len(InEdges(edges, lastCmd.kind)) = 0
    /\ OutEdges(edges, lastCmd.kind)
         = <<[source |-> lastCmd.kind, target |-> lastCmd.id, label |-> ""]>>
    /\ \A i \in 1..Len(nodes) : ~nodes[i].isDraggable

\* C20: after every completed addNodeBetween, deleteNodes, onConnect and
\* onDrop, every Task node of the node list has exactly one outgoing edge.
C20_EveryTaskHasOneOutEdge ==
    \A i \in 1..Len(nodes) :
        nodes[i].componentType = "task"
        => Len(OutEdges(edges, nodes[i].id)) = 1

\* C18: in every state reached by insertions and deletions the node list
\* holds exactly one node 'start', one 'end', one 'trigger_start' and one
\* 'trigger_end'.
C18_OneOfEachSentinel ==
    \A id \in {"start", "end", "trigger_start", "trigger_end"} :
        Cardinality({i \in 1..Len(nodes) : nodes[i].id = id}) = 1

\* the last inserted step has been deleted again: the four sentinels are the
\* whole node list
C18_Witness ==
    /\ lastCmd.op = "deleteNodes" /\ lastCmd.done
    /\ uuids >= 1
    /\ Len(nodes) = 4

\* the nodes reached from a node by following edges, the node included
Reaches(es, id) == ReachedFrom(es, {id}, NullId)

\* C19: after every insertion and deletion 'end' is reached from 'start' by
\* following edges, and the branches that leave a Switch meet again in a node
\* that comes before 'end'.
C19_MainLaneConnected ==
    /\ "end" \in Reaches(edges, "start")
    /\ \A i \in 1..Len(nodes) :
          nodes[i].componentType = "switch"
          => \E m \in Ids(nodes) \ {"end"} :
                \A k \in 1..Len(edges) :
                    edges[k].source = nodes[i].id
                    => m \in Reaches(edges, edges[k].target)

\* the steps the per-step pass of validateDefinition visits: the steps of the
\* top level and the steps directly in their branches or body
VisitedSteps(def) ==
    Concat([i \in 1..Len(def.sequence) |->
              LET step == def.sequence[i]
              IN <<step>> \o step.branchesTrue \o step.branchesFalse \o step.sequence])

\* the findings the two passes produce on a definition, as the set of their
\* [message, severity] pairs
ProducedFindings(def) ==
    {<<validateGlobalPure(def)[i][2], "error">> : i \in 1..Len(validateGlobalPure(def))}
    \cup UNION {{validateStepPure(VisitedSteps(def)[i])[k] :
                    k \in 1..Len(validateStepPure(VisitedSteps(def)[i]))} :
                 i \in 1..Len(VisitedSteps(def))}

RECURSIVE AllSteps(_)
AllSteps(seq) ==
    IF seq = <<>> THEN <<>>
    ELSE <<Head(seq)>> \o AllSteps(Head(seq).branchesTrue)
         \o AllSteps(Head(seq).branchesFalse) \o AllSteps(Head(seq).sequence)
         \o AllSteps(Tail(seq))

\* C17: for every step of the stored definition, at every depth, that has a
\* failing check, validationErrors has an entry under the step's name (or id)
\* and isValid is false.
C17_EveryDepthValidated ==
    LET v == validateDefinition(definition)
        all == AllSteps(definition.sequence)
    IN /\ validationErrors = v.validationErrors
       /\ definition.isValid = v.isValid
       /\ \A i \in 1..Len(all) :
             validateStepPure(all[i]) # <<>>
             => /\ KeyOf(all[i]) \in DOMAIN validationErrors
                /\ ~definition.isValid

\* C21: deleteNodes of a non-protected id of the node list, wherever the node
\* stands in the list, does not throw and leaves the list without the id; when
\* the node opens no region, the list afterwards is the list before without
\* that one node.
C21_DeleteAnyListedNode ==
    [][(/\ lastCmd'.op = "deleteNodes"
        /\ lastCmd'.id \notin PROTECTED_NODE_IDS
        /\ HasNode(nodes, lastCmd'.id))
       => /\ lastCmd'.error = ""
          /\ ~HasNode(nodes', lastCmd'.id)
          /\ ~HasNode(nodes, EndIdentifier(NodeOf(nodes, lastCmd'.id).type,
                                           lastCmd'.id))
             => IdList(nodes')
                  = SelectSeq(IdList(nodes), LAMBDA id : id # lastCmd'.id)]_vars

\* C22: a deleteNodes that removes nodes returns the ids of exactly the nodes
\* it removed: the ids that were in the node list before the call and are not
\* in it afterwards, the nested nodes and the end boundary of a Switch or a
\* Container included.
C22_ReturnsRemovedIds ==
    \A ids \in Ids(nodes) :
        LET r == DeleteNodesCore(nodes, edges, v2Properties, ids)
        IN r.removed
           => {r.returned[i] : i \in 1..Len(r.returned)} = Ids(nodes) \ Ids(r.nodes)

AnchorsOf(type) ==
    IF type = "node" THEN Ids(nodes) \cup {NullId, UnknownId}
    ELSE 0..(Len(edges) + 1)

\* the errors of the edge-type checks of addNodeBetween
EdgeTypeErrors ==
    {"cannot add trigger", "cannot add condition", "cannot add foreach",
     "Trigger is only allowed at the start of the workflow",
     "Only trigger can be added at the start of the workflow", "cannot add step"}

\* C24: addNodeBetween checks its preconditions in the stated order: with a
\* payload that fails its schema and an anchor that resolves to no edge the
\* schema error is thrown; with a valid payload and an anchor that resolves to
\* no edge an anchor error is thrown, whatever the edge-type and
\* duplicate-trigger checks would say; the duplicate trigger is reported only
\* when no edge-type check fails.
C24_PreconditionOrder ==
    \A rawStep \in Payloads \ {NoStep} :
      \A type \in {"node", "edge"} :
        \A anchor \in AnchorsOf(type) :
          LET err == AddNodeError(nodes, edges, type, anchor, rawStep)
              schemaOk == IF rawStep.componentType = "trigger"
                          THEN V2StepTriggerSchemaOk(rawStep)
                          ELSE V2StepTemplateSchemaOk(rawStep)
              at == FindAnchorEdge(edges, type, anchor)
              sourceId == edges[at].source
              targetId == IF sourceId = "trigger_start" THEN "trigger_end"
                          ELSE edges[at].target
          IN /\ (~schemaOk /\ at = 0) => err = "ZodError"
             /\ (schemaOk /\ at = 0)
                => err \in {"Edge not found", "Node or edge id is not defined"}
             /\ err = "Trigger is already in the workflow"
                => /\ schemaOk /\ at # 0
                   /\ sourceId = "trigger_start"
                   /\ canAddTriggerBeforeEdge(sourceId, targetId)
             /\ (schemaOk /\ at # 0 /\ TriggerAlreadyInWorkflow(nodes, rawStep)
                 /\ sourceId # "trigger_start")
                => err \in EdgeTypeErrors

\* C25: after every addNodeBetween, deleteNodes and onConnect that changed
\* the graph, the store reports the graph as layouted only if the layout pass
\* has run on the graph the command left: every node of the list carries the
\* flag the pass sets.
C25_CleanOnlyAfterLayout ==
    [][(/\ lastCmd'.op \in {"addNodeBetween", "deleteNodes", "onConnect"}
        /\ lastCmd'.done
        /\ isLayouted')
       => nodes' = LayoutedNodes(nodes')]_vars

RoundTrip(D) ==
    LET g == InitializedGraph(D)
    IN UpdatedDefinition(LayoutedNodes(g.nodes), g.edges, g.v2Properties).definition

\* the trigger entries of a properties map
TriggerProperties(properties) ==
    [K \in (DOMAIN properties) \cap TriggerKinds |-> properties[K]]

C28_DeleteContainerRemovesRegion ==
    \A i \in 1..Len(nodes) :
        nodes[i].componentType = "container"
        => LET endId == EndIdentifier(nodes[i].type, nodes[i].id)
               region == RegionOf(nodes, edges, nodes[i])
               d == DeleteNodesCore(nodes, edges, v2Properties, nodes[i].id)
           IN /\ \E j \in i..Len(nodes) :
                    /\ nodes[j].id = endId
                    /\ {nodes[k].id : k \in i..j} = region
              /\ d.removed
              /\ IdList(d.nodes)
                   = SelectSeq(IdList(nodes), LAMBDA id : id \notin region)

\* the trigger nodes of a node list, and whether an edge list joins two ids
TriggerIds(ns) == {ns[i].id : i \in 1..Len(ns)} \cap TriggerKinds
Joins(es, source, target) ==
    \E j \in 1..Len(es) : es[j].source = source /\ es[j].target = target

\* C29: the direct edge trigger_start -> trigger_end is in the edge list
\* exactly when the node list holds no trigger node; every trigger node is
\* wired between trigger_start and trigger_end; deleting one of several
\* triggers adds no edge, and deleting the only trigger restores the direct
\* edge.
C29_DirectEdgeIffNoTrigger ==
    /\ Joins(edges, "trigger_start", "trigger_end") <=> TriggerIds(nodes) = {}
    /\ \A t \in TriggerIds(nodes) :
          /\ Joins(edges, "trigger_start", t)
          /\ Joins(edges, t, "trigger_end")
          /\ LET d == DeleteNodesCore(nodes, edges, v2Properties, t)
             IN /\ d.removed
                /\ TriggerIds(d.nodes) = TriggerIds(nodes) \ {t}
                /\ IF TriggerIds(nodes) = {t}
                   THEN Joins(d.edges, "trigger_start", "trigger_end")
                   ELSE /\ EdgeSet(d.edges) \subseteq EdgeSet(edges)
                        /\ Len(d.edges) = Len(edges) - 2

\* a trigger was inserted next to another one and both are wired between
\* trigger_start and trigger_end, without a direct edge
C29_Witness ==
    /\ lastCmd.op = "addNodeBetween" /\ lastCmd.done
    /\ lastCmd.id \in TriggerKinds
    /\ Cardinality(TriggerIds(nodes)) = 2
    /\ \A t \in TriggerIds(nodes) :
          Joins(edges, "trigger_start", t) /\ Joins(edges, t, "trigger_end")
    /\ ~Joins(edges, "trigger_start", "trigger_end")

\* the ids a graph mentions: those of its nodes and the ends of its edges
IdsOfGraph(ns, es) ==
    {ns[i].id : i \in 1..Len(ns)}
    \cup {es[j].source : j \in 1..Len(es)} \cup {es[j].target : j \in 1..Len(es)}

PairwiseDistinct(ns) ==
    \A i, j \in 1..Len(ns) : ns[i].id = ns[j].id => i = j

\* a step in which addNodeBetween succeeded
AddNodeBetweenDone ==
    /\ lastCmd'.op = "addNodeBetween" /\ lastCmd'.done /\ lastCmd'.error = ""
    /\ nodes' # nodes

\* C30: the ids of the node list are pairwise distinct in every state, and a
\* successful addNodeBetween returns the id of a node of the resulting node
\* list: for a step that is not a trigger an id the graph did not mention
\* before the call, for a trigger the kind of the trigger.
C30_DistinctIdsAndReturnedId ==
    /\ []PairwiseDistinct(nodes)
    /\ [][AddNodeBetweenDone
            => /\ HasNode(nodes', lastCmd'.id)
               /\ NodeOf(nodes', lastCmd'.id).componentType = lastCmd'.kind
               /\ IF lastCmd'.kind = "trigger"
                  THEN /\ lastCmd'.id \in TriggerKinds
                       /\ NodeOf(nodes', lastCmd'.id).type = lastCmd'.id
                  ELSE lastCmd'.id \notin IdsOfGraph(nodes, edges)]_vars

\* a second step was inserted, under an id of its own, into a graph that
\* holds the first one
C30_Witness ==
    /\ lastCmd.op = "addNodeBetween" /\ lastCmd.done /\ lastCmd.error = ""
    /\ lastCmd.kind # "trigger"
    /\ lastCmd.id = Uuid(2)
    /\ HasNode(nodes, Uuid(1)) /\ HasNode(nodes, Uuid(2))
    /\ PairwiseDistinct(nodes)

\* a node lies inside a Switch branch or a Container body: some Switch or
\* Container of the node list has it in its region, between itself and its
\* end boundary
InsideRegion(ns, es, n) ==
    \E c \in 1..Len(ns) :
        /\ ns[c].componentType \in {"switch", "container"}
        /\ n.id \in RegionOf(ns, es, ns[c])
                      \ {ns[c].id, EndIdentifier(ns[c].type, ns[c].id)}

\* C31: in every state the nested flag of a node is true exactly when the
\* node lies inside a Switch branch or a Container body; the nodes an
\* insertion creates carry that flag too.
C31_NestedFlagIffInsideRegion ==
    \A i \in 1..Len(nodes) :
        nodes[i].isNested <=> InsideRegion(nodes, edges, nodes[i])

\* the step is a call of addNodeBetweenSafe with these arguments
SafeCall(type, nodeOrEdgeId, rawStep) ==
    IF lastCmd'.done
    THEN /\ AddNodeError(nodes, edges, type, nodeOrEdgeId, rawStep) = ""
         /\ AddNodeBetweenSafe(type, nodeOrEdgeId, rawStep)
    ELSE /\ AddNodeError(nodes, edges, type, nodeOrEdgeId, rawStep) # ""
         /\ AddNodeBetweenSafeCaught(type, nodeOrEdgeId, rawStep)

\* what a call of addNodeBetweenSafe has to leave: nothing thrown; where
\* addNodeBetween raises, null returned and the document, the selection and
\* the counter as they were; elsewhere what addNodeBetween sets and returns
SafeOutcome(type, nodeOrEdgeId, rawStep) ==
    LET r == AddNodeBetweenCore(nodes, edges, v2Properties, type, nodeOrEdgeId,
                                rawStep, Uuid(uuids + 1))
    IN /\ lastCmd'.error = ""
       /\ IF AddNodeError(nodes, edges, type, nodeOrEdgeId, rawStep) # ""
          THEN /\ lastCmd'.id = NullId
               /\ UNCHANGED <<nodes, edges, v2Properties, definition,
                              selectedNode, selectedEdge, changes>>
          ELSE /\ lastCmd'.id = r.newNodeId
               /\ Committed(r.nodes, r.edges, r.v2Properties)
               /\ selectedNode' = r.newNodeId
               /\ selectedEdge' = NullId

\* C32: addNodeBetweenSafe never throws; on every input on which
\* addNodeBetween raises it returns null and leaves nodes, edges,
\* v2Properties, definition, the selection and changes as they were, and on
\* every other input it sets and returns what addNodeBetween does.
C32_SafeNeverThrows ==
    [][lastCmd'.op = "addNodeBetweenSafe"
       => \A rawStep \in Payloads :
            /\ \A id \in Ids(nodes) \cup {NullId, UnknownId} :
                  SafeCall("node", id, rawStep) => SafeOutcome("node", id, rawStep)
            /\ \A at \in 0..(Len(edges) + 1) :
                  SafeCall("edge", at, rawStep) => SafeOutcome("edge", at, rawStep)]_vars

\* a call of addNodeBetweenSafe returned null on a document with a selected
\* node and an unsaved edit, and left both
C32_Witness ==
    /\ lastCmd.op = "addNodeBetweenSafe" /\ ~lastCmd.done
    /\ lastCmd.id = NullId
    /\ selectedNode = Uuid(1)
    /\ changes = 1

\* C33: in every state at most one of the selected node and the selected
\* edge is set; after an addNodeBetween that succeeded the selected node is
\* the new node, and after a deleteNodes that succeeded no node is selected.
C33_SelectionExclusive ==
    /\ selectedNode = NullId \/ selectedEdge = NullId
    /\ (lastCmd.op = "addNodeBetween" /\ lastCmd.done)
       => (selectedNode = lastCmd.id /\ HasNode(nodes, selectedNode))
    /\ (lastCmd.op = "deleteNodes" /\ lastCmd.done) => selectedNode = NullId

\* a node was deleted while an edge was selected: the edge stays selected
\* and no node is
C33_Witness ==
    /\ lastCmd.op = "deleteNodes" /\ lastCmd.done
    /\ selectedEdge # NullId
    /\ selectedNode = NullId

\* the commands that count an edit when they go through
CountedCommands ==
    {"addNodeBetween", "deleteNodes", "updateSelectedNodeData",
     "updateV2Properties", "updateFromYamlString"}

\* C34: the counter of unsaved changes starts at 0; a command that counts an
\* edit adds exactly one to it when it goes through; setLastDeployedAt and
\* reset set it to 0; every other step, the commands that fail or do nothing
\* included, leaves it; so useUIBuilderUnsavedChanges is true exactly when an
\* edit went through since the last deploy or reset.
C34_ChangesCountsEdits ==
    /\ changes = 0
    /\ [][LET edit == lastCmd'.done /\ lastCmd'.op \in CountedCommands
              cleared == lastCmd'.op \in {"setLastDeployedAt", "reset"}
          IN /\ edit => changes' = changes + 1
             /\ cleared => changes' = 0
             /\ (~edit /\ ~cleared) => changes' = changes
             /\ useUIBuilderUnsavedChanges'
                  <=> (edit \/ (~cleared /\ useUIBuilderUnsavedChanges))]_vars

\* a text was loaded over an unsaved edit: two edits are counted
C34_Witness ==
    /\ lastCmd.op = "updateFromYamlString" /\ lastCmd.done
    /\ changes = 2
    /\ useUIBuilderUnsavedChanges

====
